---------------------------- MODULE Spec2Model ----------------------------
(***************************************************************************)
(* A model of miniserde's JSON engine: the lexer and the non-recursive     *)
(* deserialize driver of src/json/de.rs, the Value visitor of              *)
(* src/json/value.rs and the non-recursive text writer of src/json/ser.rs. *)
(*                                                                         *)
(* Bytes are the integers 0..255 and a text is a sequence of bytes.        *)
(* Positions are zero-based as in the source: byte p of a text is          *)
(* input[p + 1].  u64 and i64 values do not fit TLC's 32-bit integers, so  *)
(* a u64 is held as its decimal numeral: the sequence of its digits, most  *)
(* significant first, without leading zeros (zero is <<0>>).               *)
(***************************************************************************)
EXTENDS Integers, Sequences, FiniteSets, TLC

\* ------------------------------------------------------------------ bytes

NUL == 0
BS_CTL == 8
TAB == 9
LF == 10
FF_CTL == 12
CR == 13
SPACE == 32
QUOTE == 34
PLUS == 43
COMMA == 44
MINUS == 45
DOT == 46
SLASH == 47
DIGIT0 == 48
DIGIT9 == 57
COLON == 58
UPPER_A == 65
UPPER_E == 69
UPPER_F == 70
LBRACKET == 91
BACKSLASH == 92
RBRACKET == 93
LOWER_A == 97
LOWER_B == 98
LOWER_D == 100
LOWER_E == 101
LOWER_F == 102
LOWER_L == 108
LOWER_N == 110
LOWER_R == 114
LOWER_S == 115
LOWER_T == 116
LOWER_U == 117
LBRACE == 123
RBRACE == 125

\* The absent byte: Option<u8>::None.
NoByte == 0 - 1

IsDigit(b) == DIGIT0 <= b /\ b <= DIGIT9

\* CLASSIFY: the 256-entry byte classification table.
CLASSIFY(b) ==
    IF b \in {SPACE, LF, CR, TAB} THEN "Whitespace"
    ELSE IF 0 <= b /\ b <= 31 THEN "Control"
    ELSE IF IsDigit(b) THEN "Digit"
    ELSE IF b = QUOTE THEN "Quote"
    ELSE IF b = LBRACE THEN "LeftBrace"
    ELSE IF b = RBRACE THEN "RightBrace"
    ELSE IF b = LBRACKET THEN "LeftBracket"
    ELSE IF b = RBRACKET THEN "RightBracket"
    ELSE IF b = COMMA THEN "Comma"
    ELSE IF b = COLON THEN "Colon"
    ELSE IF b = MINUS THEN "Minus"
    ELSE IF b \in {LOWER_T, LOWER_F, LOWER_N} THEN "Ident"
    ELSE "Error"

\* ------------------------------------------------------- decimal numerals

Last(s) == s[Len(s)]
Front(s) == SubSeq(s, 1, Len(s) - 1)

Zero == <<0>>

\* a * 10 + b on numerals.
Mul10Add(a, b) == IF a = Zero THEN <<b>> ELSE Append(a, b)

\* c / 10 and c % 10 on numerals.
Div10(c) == IF Len(c) = 1 THEN Zero ELSE Front(c)
Mod10(c) == Last(c)

RECURSIVE LexLess(_, _)
LexLess(a, b) ==
    IF a = <<>> THEN FALSE
    ELSE IF a[1] # b[1] THEN a[1] < b[1]
    ELSE LexLess(Tail(a), Tail(b))

\* a < b on numerals.
NumLess(a, b) ==
    IF Len(a) # Len(b) THEN Len(a) < Len(b) ELSE LexLess(a, b)

NumLeq(a, b) == a = b \/ NumLess(a, b)

\* u64::MAX = 18446744073709551615 and 2^63 = 9223372036854775808.
U64_MAX == <<1,8,4,4,6,7,4,4,0,7,3,7,0,9,5,5,1,6,1,5>>
TWO_63 == <<9,2,2,3,3,7,2,0,3,6,8,5,4,7,7,5,8,0,8>>

I32_MAX == 2147483647

\* overflow! without its test of the last digit: a * 10 + b is taken to fit
\* whenever a is no more than c / 10.
overflow_u64_no_digit(a, b) == NumLess(Div10(U64_MAX), a)

\* overflow!(a * 10 + b, c): a >= c / 10 && (a > c / 10 || b > c % 10), for u64.
overflow_u64(a, b) ==
    /\ NumLeq(Div10(U64_MAX), a)
    /\ (NumLess(Div10(U64_MAX), a) \/ b > Mod10(U64_MAX))

\* overflow!(a * 10 + b, i32::MAX).
overflow_i32(a, b) ==
    /\ a >= (I32_MAX \div 10)
    /\ (a > (I32_MAX \div 10) \/ b > (I32_MAX % 10))

\* i32::saturating_add and i32::saturating_sub for b >= 0.
saturating_add(a, b) == IF a > 0 /\ b > I32_MAX - a THEN I32_MAX ELSE a + b
saturating_sub(a, b) ==
    IF a < 0 /\ b > I32_MAX + a + 1 THEN (0 - I32_MAX) - 1 ELSE a - b

\* ------------------------------------------------------------------ UTF-8

IsCont(b) == 128 <= b /\ b <= 191

\* core::str::from_utf8(bytes).is_ok(): well-formed UTF-8 (no overlong form,
\* no surrogate, nothing above U+10FFFF).
\* The length of the run of ASCII bytes that s begins with.
AsciiRun(s) ==
    CHOOSE k \in 0..Len(s) :
        /\ \A i \in 1..k : s[i] < 128
        /\ k < Len(s) => s[k + 1] >= 128

\* A validation that takes ASCII only.
from_utf8_ascii(s) == \A i \in 1..Len(s) : s[i] < 128

RECURSIVE from_utf8(_)
from_utf8(s) ==
    IF s = <<>> THEN TRUE
    ELSE LET b == s[1] n == Len(s) IN
      IF b < 128 THEN from_utf8(SubSeq(s, AsciiRun(s) + 1, n))
      ELSE IF 194 <= b /\ b <= 223 THEN
          n >= 2 /\ IsCont(s[2]) /\ from_utf8(SubSeq(s, 3, n))
      ELSE IF 224 <= b /\ b <= 239 THEN
          /\ n >= 3
          /\ IsCont(s[2]) /\ IsCont(s[3])
          /\ (b = 224 => s[2] >= 160)
          /\ (b = 237 => s[2] <= 159)
          /\ from_utf8(SubSeq(s, 4, n))
      ELSE IF 240 <= b /\ b <= 244 THEN
          /\ n >= 4
          /\ IsCont(s[2]) /\ IsCont(s[3]) /\ IsCont(s[4])
          /\ (b = 240 => s[2] >= 144)
          /\ (b = 244 => s[2] <= 143)
          /\ from_utf8(SubSeq(s, 5, n))
      ELSE FALSE

\* char::encode_utf8: the UTF-8 bytes of a scalar value.
encode_utf8(c) ==
    IF c < 128 THEN <<c>>
    ELSE IF c < 2048 THEN <<192 + (c \div 64), 128 + (c % 64)>>
    ELSE IF c < 65536 THEN
        <<224 + (c \div 4096), 128 + ((c \div 64) % 64), 128 + (c % 64)>>
    ELSE <<240 + (c \div 262144), 128 + ((c \div 4096) % 64),
           128 + ((c \div 64) % 64), 128 + (c % 64)>>

\* char::from_u32(n).is_some(): n is a Unicode scalar value.
IsScalar(n) == (0 <= n /\ n < 55296) \/ (57344 <= n /\ n < 1114112)


\* ------------------------------------------------------ numerals, part 2

RECURSIVE StripZeros(_)
StripZeros(a) ==
    IF Len(a) > 1 /\ a[1] = 0 THEN StripZeros(Tail(a)) ELSE a

RECURSIVE PadTo(_, _)
PadTo(a, n) == IF Len(a) >= n THEN a ELSE PadTo(<<0>> \o a, n)

\* The digits of a - b, both of the same length, a >= b; `borrow` comes from
\* the digits to the right.
RECURSIVE SubDigits(_, _, _)
SubDigits(a, b, borrow) ==
    IF a = <<>> THEN <<>>
    ELSE LET d == (Last(a) - Last(b)) - borrow IN
         SubDigits(Front(a), Front(b), IF d < 0 THEN 1 ELSE 0)
            \o <<IF d < 0 THEN d + 10 ELSE d>>

\* a - b on numerals, for a >= b.
NumSub(a, b) == StripZeros(SubDigits(a, PadTo(b, Len(a)), 0))

\* 2^64 = 18446744073709551616.
TWO_64 == <<1,8,4,4,6,7,4,4,0,7,3,7,0,9,5,5,1,6,1,6>>

\* An i64 is a sign and a magnitude; zero is never negative.
I64(neg, mag) == [neg |-> neg /\ mag # Zero, mag |-> mag]

\* `n as i64` for a u64 n: the two's complement reinterpretation.
as_i64_cast(n) ==
    IF NumLess(n, TWO_63) THEN I64(FALSE, n) ELSE I64(TRUE, NumSub(TWO_64, n))

\* i64::wrapping_neg.
wrapping_neg(x) ==
    IF x.neg /\ x.mag = TWO_63 THEN x ELSE I64(~x.neg, x.mag)

\* ------------------------------------------------------------------ f64
\* An f64 is held as a sign and a decimal sig * 10^exp.  The model does not
\* round: it tells zero, finite and infinite magnitudes apart by the decimal
\* order of magnitude (f64::MAX is about 1.8e308, the least positive f64
\* about 4.9e-324).

F64(neg, sig, exp) ==
    [cls |-> "finite", neg |-> neg, sig |-> sig, exp |-> exp]

\* The f64 values that are not finite.
NaN == [cls |-> "nan", neg |-> FALSE, sig |-> Zero, exp |-> 0]
Infinity(neg) == [cls |-> "inf", neg |-> neg, sig |-> Zero, exp |-> 0]

\* f64::is_finite
is_finite(f) == f.cls = "finite"

\* f == 0.0 for the product or quotient sig * 10^exp.
IsZeroF(sig, exp) == sig = Zero \/ Len(sig) + exp < 0 - 323

\* f.is_infinite() for the product sig * 10^exp.
IsInfiniteF(sig, exp) ==
    /\ sig # Zero
    /\ \/ Len(sig) + exp > 309
       \/ /\ Len(sig) + exp = 309
          /\ ~LexLess(SubSeq(sig \o <<0, 0>>, 1, 3), <<1, 8, 0>>)

\* The number of entries of POW10.
POW10_LEN == 309

\* What f64_from_parts returns, with what its loop did: `index` is the
\* index at which POW10.get found an entry (NoIndex when the loop ended
\* without one), `rounds` the number of divisions by 1e308 before.
NoIndex == 0 - 1
PartsRes(ok, f, fexp, index) ==
    [ok |-> ok, f |-> f, rounds |-> (0 - fexp) \div 308, index |-> index]

\* The table is taken to reach one entry further, up to index POW10_LEN.
RECURSIVE f64_loop_one_more(_, _, _, _)
f64_loop_one_more(nonnegative, sig, fexp, exponent) ==
    IF 0 - POW10_LEN <= exponent /\ exponent <= POW10_LEN THEN
        LET index == IF exponent < 0 THEN 0 - exponent ELSE exponent IN
        IF exponent >= 0 /\ IsInfiniteF(sig, fexp + exponent)
        THEN PartsRes(FALSE, F64(~nonnegative, sig, fexp + exponent), fexp,
                      index)
        ELSE IF IsZeroF(sig, fexp + exponent)
        THEN PartsRes(TRUE, F64(~nonnegative, Zero, 0), fexp, index)
        ELSE PartsRes(TRUE, F64(~nonnegative, sig, fexp + exponent), fexp,
                      index)
    ELSE IF IsZeroF(sig, fexp)
        THEN PartsRes(TRUE, F64(~nonnegative, Zero, 0), fexp, NoIndex)
    ELSE IF exponent >= 0
        THEN PartsRes(FALSE, F64(~nonnegative, sig, fexp), fexp, NoIndex)
    ELSE f64_loop_one_more(nonnegative, sig, fexp - 308, exponent + 308)

\* loop { match POW10.get(exponent.unsigned_abs()) .. }: the entry is there
\* for -309 < exponent < 309.  `fexp` is the decimal exponent that f has
\* got from the divisions by 1e308 so far.
RECURSIVE f64_loop(_, _, _, _)
f64_loop(nonnegative, sig, fexp, exponent) ==
    IF 0 - POW10_LEN < exponent /\ exponent < POW10_LEN THEN
        LET index == IF exponent < 0 THEN 0 - exponent ELSE exponent IN
        IF exponent >= 0 /\ IsInfiniteF(sig, fexp + exponent)
        THEN PartsRes(FALSE, F64(~nonnegative, sig, fexp + exponent), fexp,
                      index)
        ELSE IF IsZeroF(sig, fexp + exponent)
        THEN PartsRes(TRUE, F64(~nonnegative, Zero, 0), fexp, index)
        ELSE PartsRes(TRUE, F64(~nonnegative, sig, fexp + exponent), fexp,
                      index)
    ELSE IF IsZeroF(sig, fexp)
        THEN PartsRes(TRUE, F64(~nonnegative, Zero, 0), fexp, NoIndex)
    ELSE IF exponent >= 0
        THEN PartsRes(FALSE, F64(~nonnegative, sig, fexp), fexp, NoIndex)
    ELSE f64_loop(nonnegative, sig, fexp - 308, exponent + 308)

f64_from_parts(nonnegative, significand, exponent) ==
    f64_loop(nonnegative, significand, 0, exponent)

\* ------------------------------------------------------------ the lexer

peek(input, pos) == IF pos < Len(input) THEN input[pos + 1] ELSE NoByte
peek_or_nul(input, pos) == IF pos < Len(input) THEN input[pos + 1] ELSE NUL

NoEvent == [e |-> "None"]
LexErr(pos, buf) == [ok |-> FALSE, pos |-> pos, ev |-> NoEvent, buf |-> buf]
LexOk(pos, ev, buf) == [ok |-> TRUE, pos |-> pos, ev |-> ev, buf |-> buf]

\* A scan that also stops at the control bytes, which JSON does not allow
\* raw in a string.
RECURSIVE find_special_char_scalar_strict(_)
find_special_char_scalar_strict(slice) ==
    IF slice = <<>> THEN 0
    ELSE IF slice[1] = BACKSLASH \/ slice[1] = QUOTE \/ slice[1] < 32 THEN 0
    ELSE 1 + find_special_char_scalar_strict(Tail(slice))

RECURSIVE find_special_char_scalar(_)
find_special_char_scalar(slice) ==
    IF slice = <<>> THEN 0
    ELSE IF slice[1] = BACKSLASH \/ slice[1] = QUOTE THEN 0
    ELSE 1 + find_special_char_scalar(Tail(slice))

\* Whole lanes only: the bytes after the last whole lane are not looked at.
RECURSIVE find_special_char_lanes_no_tail(_, _, _)
find_special_char_lanes_no_tail(slice, i, width) ==
    IF i + width <= Len(slice) THEN
        LET chunk == SubSeq(slice, i + 1, i + width)
            tz == find_special_char_scalar(chunk)
        IN  IF tz < width THEN i + tz
            ELSE find_special_char_lanes_no_tail(slice, i + width, width)
    ELSE Len(slice)

\* The vector back ends: whole lanes first, the scalar scan for the rest.
RECURSIVE find_special_char_lanes(_, _, _)
find_special_char_lanes(slice, i, width) ==
    IF i + width <= Len(slice) THEN
        LET chunk == SubSeq(slice, i + 1, i + width)
            tz == find_special_char_scalar(chunk)
        IN  IF tz < width THEN i + tz
            ELSE find_special_char_lanes(slice, i + width, width)
    ELSE IF i < Len(slice)
        THEN i + find_special_char_scalar(SubSeq(slice, i + 1, Len(slice)))
    ELSE i

AVX2_LANE == 32
SSE2_LANE == 16

find_special_char_avx2(slice) == find_special_char_lanes(slice, 0, AVX2_LANE)
find_special_char_sse2(slice) == find_special_char_lanes(slice, 0, SSE2_LANE)

find_next_special_character(slice, cpu) ==
    IF cpu = "avx2" THEN find_special_char_avx2(slice)
    ELSE IF cpu = "sse2" THEN find_special_char_sse2(slice)
    ELSE find_special_char_scalar(slice)

HexVal(c) ==
    IF IsDigit(c) THEN c - DIGIT0
    ELSE IF UPPER_A <= c /\ c <= UPPER_F THEN (c - UPPER_A) + 10
    ELSE IF LOWER_A <= c /\ c <= LOWER_F THEN (c - LOWER_A) + 10
    ELSE 0 - 1

RECURSIVE decode_hex_loop(_, _, _, _)
decode_hex_loop(input, pos, n, k) ==
    IF k = 0 THEN [ok |-> TRUE, pos |-> pos, n |-> n]
    ELSE IF pos >= Len(input) THEN [ok |-> FALSE, pos |-> pos, n |-> n]
    ELSE IF HexVal(input[pos + 1]) < 0
        THEN [ok |-> FALSE, pos |-> pos + 1, n |-> n]
    ELSE decode_hex_loop(input, pos + 1, n * 16 + HexVal(input[pos + 1]), k - 1)

decode_hex_escape(input, pos) == decode_hex_loop(input, pos, 0, 4)

EscErr(pos, buf) == [ok |-> FALSE, pos |-> pos, buf |-> buf]
EscOk(pos, buf) == [ok |-> TRUE, pos |-> pos, buf |-> buf]

\* The second half of a pair taken without the test of its range: any code
\* unit after a high surrogate is paired with it.
parse_low_surrogate_unchecked(input, pos, buf, n1) ==
    IF pos >= Len(input) THEN EscErr(pos, buf)
    ELSE IF input[pos + 1] # BACKSLASH THEN EscErr(pos + 1, buf)
    ELSE IF pos + 1 >= Len(input) THEN EscErr(pos + 1, buf)
    ELSE IF input[pos + 2] # LOWER_U THEN EscErr(pos + 2, buf)
    ELSE LET h2 == decode_hex_escape(input, pos + 2) IN
        IF ~h2.ok THEN EscErr(h2.pos, buf)
        ELSE LET n == ((n1 - 55296) * 1024 + ((h2.n - 56320) % 1024)) + 65536 IN
            IF IsScalar(n) THEN EscOk(h2.pos, buf \o encode_utf8(n))
            ELSE EscErr(h2.pos, buf)

\* The second half of a surrogate pair, after the high surrogate n1 was read
\* up to `pos`.
parse_low_surrogate(input, pos, buf, n1) ==
    IF pos >= Len(input) THEN EscErr(pos, buf)
    ELSE IF input[pos + 1] # BACKSLASH THEN EscErr(pos + 1, buf)
    ELSE IF pos + 1 >= Len(input) THEN EscErr(pos + 1, buf)
    ELSE IF input[pos + 2] # LOWER_U THEN EscErr(pos + 2, buf)
    ELSE LET h2 == decode_hex_escape(input, pos + 2) IN
        IF ~h2.ok THEN EscErr(h2.pos, buf)
        ELSE IF h2.n < 56320 \/ h2.n > 57343 THEN EscErr(h2.pos, buf)
        ELSE LET n == ((n1 - 55296) * 1024 + (h2.n - 56320)) + 65536 IN
            IF IsScalar(n) THEN EscOk(h2.pos, buf \o encode_utf8(n))
            ELSE EscErr(h2.pos, buf)

\* A byte that names no escape stands for itself.
parse_escape_lenient(input, pos, buf) ==
    IF pos >= Len(input) THEN EscErr(pos, buf)
    ELSE LET ch == input[pos + 1]
             p1 == pos + 1
         IN
        IF ch = LOWER_B THEN EscOk(p1, Append(buf, BS_CTL))
        ELSE IF ch = LOWER_F THEN EscOk(p1, Append(buf, FF_CTL))
        ELSE IF ch = LOWER_N THEN EscOk(p1, Append(buf, LF))
        ELSE IF ch = LOWER_R THEN EscOk(p1, Append(buf, CR))
        ELSE IF ch = LOWER_T THEN EscOk(p1, Append(buf, TAB))
        ELSE IF ch = LOWER_U THEN
            LET h1 == decode_hex_escape(input, p1) IN
            IF ~h1.ok THEN EscErr(h1.pos, buf)
            ELSE IF 56320 <= h1.n /\ h1.n <= 57343 THEN EscErr(h1.pos, buf)
            ELSE IF 55296 <= h1.n /\ h1.n <= 56319
                THEN parse_low_surrogate(input, h1.pos, buf, h1.n)
            ELSE IF IsScalar(h1.n)
                THEN EscOk(h1.pos, buf \o encode_utf8(h1.n))
            ELSE EscErr(h1.pos, buf)
        ELSE EscOk(p1, Append(buf, ch))

parse_escape(input, pos, buf) ==
    IF pos >= Len(input) THEN EscErr(pos, buf)
    ELSE LET ch == input[pos + 1]
             p1 == pos + 1
         IN
        IF ch = QUOTE THEN EscOk(p1, Append(buf, QUOTE))
        ELSE IF ch = BACKSLASH THEN EscOk(p1, Append(buf, BACKSLASH))
        ELSE IF ch = SLASH THEN EscOk(p1, Append(buf, SLASH))
        ELSE IF ch = LOWER_B THEN EscOk(p1, Append(buf, BS_CTL))
        ELSE IF ch = LOWER_F THEN EscOk(p1, Append(buf, FF_CTL))
        ELSE IF ch = LOWER_N THEN EscOk(p1, Append(buf, LF))
        ELSE IF ch = LOWER_R THEN EscOk(p1, Append(buf, CR))
        ELSE IF ch = LOWER_T THEN EscOk(p1, Append(buf, TAB))
        ELSE IF ch = LOWER_U THEN
            LET h1 == decode_hex_escape(input, p1) IN
            IF ~h1.ok THEN EscErr(h1.pos, buf)
            ELSE IF 56320 <= h1.n /\ h1.n <= 57343 THEN EscErr(h1.pos, buf)
            ELSE IF 55296 <= h1.n /\ h1.n <= 56319
                THEN parse_low_surrogate(input, h1.pos, buf, h1.n)
            ELSE IF IsScalar(h1.n)
                THEN EscOk(h1.pos, buf \o encode_utf8(h1.n))
            ELSE EscErr(h1.pos, buf)
        ELSE EscErr(p1, buf)

\* A parse_str that validates the final chunk only: a chunk in front of an
\* escape goes to the scratch buffer as it is.
RECURSIVE parse_str_loop_final_only(_, _, _, _, _, _)
parse_str_loop_final_only(input, validate_utf8, cpu, pos, start, buffer) ==
    LET p == pos + find_next_special_character(
                     SubSeq(input, pos + 1, Len(input)), cpu)
    IN
    IF p = Len(input) THEN LexErr(p, buffer)
    ELSE IF input[p + 1] = QUOTE THEN
        LET final_chunk == SubSeq(input, start + 1, p) IN
        IF validate_utf8 /\ ~from_utf8(final_chunk)
        THEN LexErr(p + 1, buffer)
        ELSE IF buffer = <<>>
        THEN LexOk(p + 1, [e |-> "Str", s |-> final_chunk], buffer)
        ELSE LexOk(p + 1, [e |-> "Str", s |-> buffer \o final_chunk],
                   buffer \o final_chunk)
    ELSE IF input[p + 1] = BACKSLASH THEN
        LET chunk == SubSeq(input, start + 1, p)
            esc == parse_escape(input, p + 1, buffer \o chunk)
        IN
        IF ~esc.ok THEN LexErr(esc.pos, esc.buf)
        ELSE parse_str_loop_final_only(input, validate_utf8, cpu,
                                       esc.pos, esc.pos, esc.buf)
    ELSE LexErr(p, buffer)

RECURSIVE parse_str_loop(_, _, _, _, _, _)
parse_str_loop(input, validate_utf8, cpu, pos, start, buffer) ==
    LET p == pos + find_next_special_character(
                     SubSeq(input, pos + 1, Len(input)), cpu)
    IN
    IF p = Len(input) THEN LexErr(p, buffer)
    ELSE IF input[p + 1] = QUOTE THEN
        LET final_chunk == SubSeq(input, start + 1, p) IN
        IF buffer = <<>> THEN
            IF validate_utf8 /\ ~from_utf8(final_chunk)
            THEN LexErr(p + 1, buffer)
            ELSE LexOk(p + 1, [e |-> "Str", s |-> final_chunk], buffer)
        ELSE
            IF validate_utf8 /\ ~from_utf8(final_chunk)
            THEN LexErr(p + 1, buffer)
            ELSE LexOk(p + 1, [e |-> "Str", s |-> buffer \o final_chunk],
                       buffer \o final_chunk)
    ELSE IF input[p + 1] = BACKSLASH THEN
        LET chunk == SubSeq(input, start + 1, p) IN
        IF validate_utf8 /\ ~from_utf8(chunk) THEN LexErr(p, buffer)
        ELSE LET esc == parse_escape(input, p + 1, buffer \o chunk) IN
            IF ~esc.ok THEN LexErr(esc.pos, esc.buf)
            ELSE parse_str_loop(input, validate_utf8, cpu,
                                esc.pos, esc.pos, esc.buf)
    ELSE LexErr(p, buffer)

\* parse_str: `pos` is just past the opening quote.
\* The scratch buffer is used as the last string left it.
parse_str_dirty(input, validate_utf8, cpu, pos, buffer) ==
    parse_str_loop(input, validate_utf8, cpu, pos, pos, buffer)

\* self.buffer.clear(): whatever an earlier string left in `buffer` is gone.
parse_str(input, validate_utf8, cpu, pos, buffer) ==
    parse_str_loop(input, validate_utf8, cpu, pos, pos, <<>>)


FloatEv(r) == IF r.ok THEN [e |-> "Float", f |-> r.f] ELSE NoEvent

\* Results of the number lexer: [ok, pos, ev].
NumRes(r, pos) == [ok |-> r.ok, pos |-> pos, ev |-> FloatEv(r)]
NumErr(pos) == [ok |-> FALSE, pos |-> pos, ev |-> NoEvent]

\* while let b'0'..=b'9' = self.peek_or_nul() { self.bump(); }: the position
\* of the first byte from pos on that is no digit.
skip_digits(input, pos) ==
    CHOOSE n \in pos..Len(input) :
        /\ \A i \in (pos + 1)..n : IsDigit(input[i])
        /\ n < Len(input) => ~IsDigit(input[n + 1])

\* No error: the digits are skipped and an infinity stands for the value
\* that is out of range.
parse_exponent_overflow_inf(input, pos, nonnegative, significand, positive_exp) ==
    [ok |-> TRUE, pos |-> skip_digits(input, pos),
     ev |-> [e |-> "Float",
             f |-> IF significand # Zero /\ positive_exp
                   THEN Infinity(~nonnegative)
                   ELSE F64(~nonnegative, Zero, 0)]]

parse_exponent_overflow(input, pos, nonnegative, significand, positive_exp) ==
    IF significand # Zero /\ positive_exp THEN NumErr(pos)
    ELSE [ok |-> TRUE, pos |-> skip_digits(input, pos),
          ev |-> [e |-> "Float", f |-> F64(~nonnegative, Zero, 0)]]

RECURSIVE parse_exponent_loop(_, _, _, _, _, _, _)
parse_exponent_loop(input, pos, nonnegative, significand, starting_exp, positive_exp, exp) ==
    IF IsDigit(peek_or_nul(input, pos)) THEN
        LET digit == peek_or_nul(input, pos) - DIGIT0 IN
        IF overflow_i32(exp, digit)
        THEN parse_exponent_overflow(input, pos + 1, nonnegative,
                                     significand, positive_exp)
        ELSE parse_exponent_loop(input, pos + 1, nonnegative, significand,
                                 starting_exp, positive_exp, exp * 10 + digit)
    ELSE LET final_exp == IF positive_exp
                          THEN saturating_add(starting_exp, exp)
                          ELSE saturating_sub(starting_exp, exp)
         IN NumRes(f64_from_parts(nonnegative, significand, final_exp), pos)

\* parse_exponent: `pos` is at the 'e' or 'E', which the first bump consumes.
\* An exponent whose first digit is taken with bump(), whether or not a byte
\* is there.
parse_exponent_bump(input, pos, nonnegative, significand, starting_exp) ==
    LET p1 == pos + 1
        sign == peek_or_nul(input, p1)
        positive_exp == sign # MINUS
        p2 == IF sign = PLUS \/ sign = MINUS THEN p1 + 1 ELSE p1
        c == peek_or_nul(input, p2)
        p3 == p2 + 1
    IN  IF IsDigit(c)
        THEN parse_exponent_loop(input, p3, nonnegative, significand,
                                 starting_exp, positive_exp, c - DIGIT0)
        ELSE NumErr(p3)

parse_exponent(input, pos, nonnegative, significand, starting_exp) ==
    LET p1 == pos + 1
        sign == peek_or_nul(input, p1)
        positive_exp == sign # MINUS
        p2 == IF sign = PLUS \/ sign = MINUS THEN p1 + 1 ELSE p1
        \* next_or_nul: the position moves only when a byte is there
        c == peek_or_nul(input, p2)
        p3 == IF p2 < Len(input) THEN p2 + 1 ELSE p2
    IN  IF IsDigit(c)
        THEN parse_exponent_loop(input, p3, nonnegative, significand,
                                 starting_exp, positive_exp, c - DIGIT0)
        ELSE NumErr(p3)

\* The digits that are skipped after the overflow still lower the exponent.
parse_decimal_loop_counting(input, pos, nonnegative, significand, exponent, at_least_one_digit) ==
    LET end == skip_digits(input, pos)
        digits == [i \in 1..(end - pos) |-> input[pos + i] - DIGIT0]
        kept == CHOOSE k \in 0..Len(digits) :
                    /\ \A j \in 1..k :
                        ~overflow_u64(StripZeros(significand \o SubSeq(digits, 1, j - 1)),
                                      digits[j])
                    /\ k < Len(digits) =>
                        overflow_u64(StripZeros(significand \o SubSeq(digits, 1, k)),
                                     digits[k + 1])
    IN  [pos |-> end, sig |-> StripZeros(significand \o SubSeq(digits, 1, kept)),
         exp |-> exponent - Len(digits),
         any |-> at_least_one_digit \/ Len(digits) > 0]

RECURSIVE parse_decimal_loop(_, _, _, _, _, _)
parse_decimal_loop(input, pos, nonnegative, significand, exponent, at_least_one_digit) ==
    IF IsDigit(peek_or_nul(input, pos)) THEN
        LET digit == peek_or_nul(input, pos) - DIGIT0 IN
        IF overflow_u64(significand, digit)
        THEN [pos |-> skip_digits(input, pos + 1), sig |-> significand,
              exp |-> exponent, any |-> TRUE]
        ELSE parse_decimal_loop(input, pos + 1, nonnegative,
                                Mul10Add(significand, digit), exponent - 1,
                                TRUE)
    ELSE [pos |-> pos, sig |-> significand, exp |-> exponent,
          any |-> at_least_one_digit]

\* parse_decimal: `pos` is at the '.', which the first bump consumes.
parse_decimal(input, pos, nonnegative, significand, exponent) ==
    LET d == parse_decimal_loop(input, pos + 1, nonnegative, significand,
                                exponent, FALSE)
    IN  IF ~d.any THEN NumErr(d.pos)
        ELSE IF peek_or_nul(input, d.pos) \in {LOWER_E, UPPER_E}
            THEN parse_exponent(input, d.pos, nonnegative, d.sig, d.exp)
        ELSE NumRes(f64_from_parts(nonnegative, d.sig, d.exp), d.pos)

\* The loop bumps over the digits that follow, adding one to the exponent
\* for each, and then looks at the byte after them.
parse_long_integer(input, pos, nonnegative, significand, exponent) ==
    LET end == skip_digits(input, pos)
        c == peek_or_nul(input, end)
        exp == exponent + (end - pos)
    IN
    IF c = DOT
        THEN parse_decimal(input, end, nonnegative, significand, exp)
    ELSE IF c = LOWER_E \/ c = UPPER_E
        THEN parse_exponent(input, end, nonnegative, significand, exp)
    ELSE NumRes(f64_from_parts(nonnegative, significand, exp), end)

\* The negated magnitude is handed on without looking at its sign.
parse_number_unchecked(input, pos, nonnegative, significand) ==
    LET c == peek_or_nul(input, pos) IN
    IF c = DOT THEN parse_decimal(input, pos, nonnegative, significand, 0)
    ELSE IF c = LOWER_E \/ c = UPPER_E
        THEN parse_exponent(input, pos, nonnegative, significand, 0)
    ELSE IF nonnegative
        THEN [ok |-> TRUE, pos |-> pos,
              ev |-> [e |-> "Nonnegative", n |-> significand]]
    ELSE [ok |-> TRUE, pos |-> pos,
          ev |-> [e |-> "Negative",
                  n |-> wrapping_neg(as_i64_cast(significand))]]

parse_number(input, pos, nonnegative, significand) ==
    LET c == peek_or_nul(input, pos) IN
    IF c = DOT THEN parse_decimal(input, pos, nonnegative, significand, 0)
    ELSE IF c = LOWER_E \/ c = UPPER_E
        THEN parse_exponent(input, pos, nonnegative, significand, 0)
    ELSE IF nonnegative
        THEN [ok |-> TRUE, pos |-> pos,
              ev |-> [e |-> "Nonnegative", n |-> significand]]
    ELSE LET neg == wrapping_neg(as_i64_cast(significand)) IN
        IF ~neg.neg /\ neg.mag # Zero
        THEN [ok |-> TRUE, pos |-> pos,
              ev |-> [e |-> "Float", f |-> F64(TRUE, significand, 0)]]
        ELSE [ok |-> TRUE, pos |-> pos, ev |-> [e |-> "Negative", n |-> neg]]

RECURSIVE parse_integer_loop(_, _, _, _)
parse_integer_loop(input, pos, nonnegative, res) ==
    LET c == peek_or_nul(input, pos) IN
    IF IsDigit(c) THEN
        IF overflow_u64(res, c - DIGIT0)
        THEN parse_long_integer(input, pos + 1, nonnegative, res, 1)
        ELSE parse_integer_loop(input, pos + 1, nonnegative,
                                Mul10Add(res, c - DIGIT0))
    ELSE parse_number(input, pos, nonnegative, res)

\* A leading 0 is read as any other digit.
parse_integer_any_lead(input, pos, nonnegative, first_digit) ==
    IF IsDigit(first_digit)
        THEN parse_integer_loop(input, pos, nonnegative,
                                <<first_digit - DIGIT0>>)
    ELSE NumErr(pos)

parse_integer(input, pos, nonnegative, first_digit) ==
    IF first_digit = DIGIT0 THEN
        IF IsDigit(peek_or_nul(input, pos)) THEN NumErr(pos)
        ELSE parse_number(input, pos, nonnegative, Zero)
    ELSE IF IsDigit(first_digit)
        THEN parse_integer_loop(input, pos, nonnegative,
                                <<first_digit - DIGIT0>>)
    ELSE NumErr(pos)

\* parse_ident: the position after the bytes read, and whether they matched.
RECURSIVE parse_ident(_, _, _)
parse_ident(input, pos, ident) ==
    IF ident = <<>> THEN [ok |-> TRUE, pos |-> pos]
    ELSE IF pos >= Len(input) THEN [ok |-> FALSE, pos |-> pos]
    ELSE IF input[pos + 1] # ident[1] THEN [ok |-> FALSE, pos |-> pos + 1]
    ELSE parse_ident(input, pos + 1, Tail(ident))

RECURSIVE skip_whitespace(_, _)
skip_whitespace(input, pos) ==
    IF pos < Len(input) /\ CLASSIFY(input[pos + 1]) = "Whitespace"
    THEN skip_whitespace(input, pos + 1)
    ELSE pos

\* skip_whitespace_and_peek_class: the new position, the byte there (or
\* NoByte at the end of the input) and its class.
skip_whitespace_and_peek_class(input, pos) ==
    LET p == skip_whitespace(input, pos) IN
    [pos |-> p, byte |-> peek(input, p),
     class |-> IF p < Len(input) THEN CLASSIFY(input[p + 1]) ELSE "None"]

IdentEvent(r, ev, buf) ==
    IF r.ok THEN LexOk(r.pos, ev, buf) ELSE LexErr(r.pos, buf)

WithBuf(r, buf) == [ok |-> r.ok, pos |-> r.pos, ev |-> r.ev, buf |-> buf]

\* Deserializer::event: the next event, the position after it and the
\* scratch buffer (which only a string changes).
event(input, validate_utf8, cpu, pos0, buffer) ==
    LET sk == skip_whitespace_and_peek_class(input, pos0)
        pk == sk.byte
        pos == sk.pos + 1
    IN
    IF pk = NoByte THEN LexErr(sk.pos, buffer)
    ELSE IF pk = QUOTE THEN parse_str(input, validate_utf8, cpu, pos, buffer)
    ELSE IF IsDigit(pk) THEN WithBuf(parse_integer(input, pos, TRUE, pk), buffer)
    ELSE IF pk = MINUS THEN
        WithBuf(parse_integer(input,
                              IF pos < Len(input) THEN pos + 1 ELSE pos,
                              FALSE, peek_or_nul(input, pos)), buffer)
    ELSE IF pk = LBRACE THEN LexOk(pos, [e |-> "MapStart"], buffer)
    ELSE IF pk = LBRACKET THEN LexOk(pos, [e |-> "SeqStart"], buffer)
    ELSE IF pk = LOWER_N THEN
        IdentEvent(parse_ident(input, pos, <<LOWER_U, LOWER_L, LOWER_L>>),
                   [e |-> "Null"], buffer)
    ELSE IF pk = LOWER_T THEN
        IdentEvent(parse_ident(input, pos, <<LOWER_R, LOWER_U, LOWER_E>>),
                   [e |-> "Bool", b |-> TRUE], buffer)
    ELSE IF pk = LOWER_F THEN
        IdentEvent(parse_ident(input, pos,
                               <<LOWER_A, LOWER_L, LOWER_S, LOWER_E>>),
                   [e |-> "Bool", b |-> FALSE], buffer)
    ELSE LexErr(pos, buffer)


\* ------------------------------------------------------------ json::Value

None == <<>>
Some(v) == <<v>>

VNull == [t |-> "Null"]
VBool(b) == [t |-> "Bool", b |-> b]
VNumber(n) == [t |-> "Number", n |-> n]
VString(s) == [t |-> "String", s |-> s]
VArray(a) == [t |-> "Array", a |-> a]
VObject(o) == [t |-> "Object", o |-> o]

NU64(v) == [k |-> "U64", v |-> v]
NI64(v) == [k |-> "I64", v |-> v]
NF64(v) == [k |-> "F64", v |-> v]

\* The order of String keys: byte-wise lexicographic.
RECURSIVE StrLess(_, _)
StrLess(a, b) ==
    IF b = <<>> THEN FALSE
    ELSE IF a = <<>> THEN TRUE
    ELSE IF a[1] # b[1] THEN a[1] < b[1]
    ELSE StrLess(Tail(a), Tail(b))

\* Object::insert: an Object is a map ordered by key, held as the sequence
\* of its entries in key order; an equal key is replaced.
RECURSIVE Object_insert(_, _, _)
Object_insert(o, k, v) ==
    IF o = <<>> THEN <<[k |-> k, v |-> v]>>
    ELSE IF o[1].k = k THEN <<[k |-> k, v |-> v]>> \o Tail(o)
    ELSE IF StrLess(k, o[1].k) THEN <<[k |-> k, v |-> v]>> \o o
    ELSE <<o[1]>> \o Object_insert(Tail(o), k, v)

\* ------------------------------------ accessors and indexing (value.rs)

\* i64::MAX = 9223372036854775807.
I64_MAX == <<9,2,2,3,3,7,2,0,3,6,8,5,4,7,7,5,8,0,7>>

\* Value::as_u64
as_u64(v) ==
    IF v.t = "Number" /\ v.n.k = "U64" THEN Some(v.n.v)
    ELSE IF v.t = "Number" /\ v.n.k = "I64" /\ ~v.n.v.neg THEN Some(v.n.v.mag)
    ELSE None

\* as_i64 without the test against i64::MAX: every u64 is cast.
as_i64_cast_any(v) ==
    IF v.t = "Number" /\ v.n.k = "I64" THEN Some(v.n.v)
    ELSE IF v.t = "Number" /\ v.n.k = "U64" THEN Some(as_i64_cast(v.n.v))
    ELSE None

\* Value::as_i64
as_i64(v) ==
    IF v.t = "Number" /\ v.n.k = "I64" THEN Some(v.n.v)
    ELSE IF v.t = "Number" /\ v.n.k = "U64" /\ NumLeq(v.n.v, I64_MAX)
        THEN Some(I64(FALSE, v.n.v))
    ELSE None

\* static NULL: Value = Value::Null
NULL == VNull

\* Array::get (the slice's): the element at index i, counted from zero.
Array_get(a, i) == IF i < Len(a) THEN Some(a[i + 1]) ELSE None

\* Object::get: the value stored under key k.
Object_get(o, k) ==
    IF \E i \in 1..Len(o) : o[i].k = k
    THEN Some(o[CHOOSE i \in 1..Len(o) : o[i].k = k].v)
    ELSE None

unwrap_or(opt, default) == IF opt = None THEN default ELSE opt[1]

\* Index<usize> for Value
Index_usize(v, index) ==
    IF v.t = "Array" THEN unwrap_or(Array_get(v.a, index), NULL) ELSE NULL

\* An index by key that does not look at the key: the first member's value.
Index_str_first(v, index) ==
    IF v.t = "Object" /\ Len(v.o) > 0 THEN v.o[1].v ELSE NULL

\* Index<&str> for Value
Index_str(v, index) ==
    IF v.t = "Object" THEN unwrap_or(Object_get(v.o, index), NULL) ELSE NULL

\* ---------------------------------------- derive: attributes (attr.rs)

\* A field, variant or container carries attributes; an attribute has a path
\* (serde, or another such as allow or doc) and nested metas; a meta has a
\* name and, after '=', a string literal.
Attr(path, metas) == [path |-> path, metas |-> metas]
Meta(name, value) == [name |-> name, value |-> value]

\* attr::Default
DefaultNone == [d |-> "None"]
DefaultDefault == [d |-> "Default"]
DefaultPath(p) == [d |-> "Path", path |-> p]

AttrErr == [ok |-> FALSE]
AttrOk(v) == [ok |-> TRUE, v |-> v]

\* A closure that accepts the default attribute and forgets it.
get_meta_default_ignored(acc, meta) ==
    IF meta.name = "rename" THEN
        IF meta.value = None \/ acc.rename # None THEN AttrErr
        ELSE AttrOk([acc EXCEPT !.rename = meta.value])
    ELSE IF meta.name = "skip_serializing_if" THEN
        IF meta.value = None \/ acc.skip_serializing_if # None THEN AttrErr
        ELSE AttrOk([acc EXCEPT !.skip_serializing_if = meta.value])
    ELSE IF meta.name = "default" THEN AttrOk(acc)
    ELSE AttrErr

\* The closure of get's parse_nested_meta, for one meta.
get_meta(acc, meta) ==
    IF meta.name = "rename" THEN
        IF meta.value = None \/ acc.rename # None THEN AttrErr
        ELSE AttrOk([acc EXCEPT !.rename = meta.value])
    ELSE IF meta.name = "skip_serializing_if" THEN
        IF meta.value = None \/ acc.skip_serializing_if # None THEN AttrErr
        ELSE AttrOk([acc EXCEPT !.skip_serializing_if = meta.value])
    ELSE IF meta.name = "default" THEN
        IF acc.default # DefaultNone THEN AttrErr
        ELSE IF meta.value = None
            THEN AttrOk([acc EXCEPT !.default = DefaultDefault])
        ELSE AttrOk([acc EXCEPT !.default = DefaultPath(meta.value[1])])
    ELSE AttrErr

\* The closure of get_container's parse_nested_meta.
get_container_meta(acc, meta) ==
    IF meta.name = "default" THEN
        IF acc.default # DefaultNone THEN AttrErr
        ELSE IF meta.value = None
            THEN AttrOk([acc EXCEPT !.default = DefaultDefault])
        ELSE AttrOk([acc EXCEPT !.default = DefaultPath(meta.value[1])])
    ELSE AttrOk(acc)

\* The closure of name_of_variant's parse_nested_meta.
name_of_variant_meta(acc, meta) ==
    IF meta.name = "rename" THEN
        IF meta.value = None \/ acc.rename # None THEN AttrErr
        ELSE AttrOk([acc EXCEPT !.rename = meta.value])
    ELSE AttrErr

\* `for attr in attrs`: the attributes that are not serde are skipped, the
\* metas of the others go through the closure `which`, and the first error
\* returns.
RECURSIVE parse_attrs(_, _, _, _)
parse_attrs(which, attrs, k, acc) ==
    IF attrs = <<>> THEN AttrOk(acc)
    ELSE IF attrs[1].path # "serde" \/ k > Len(attrs[1].metas)
        THEN parse_attrs(which, Tail(attrs), 1, acc)
    ELSE LET meta == attrs[1].metas[k]
             r == IF which = "get" THEN get_meta(acc, meta)
                  ELSE IF which = "get_container" THEN get_container_meta(acc, meta)
                  ELSE name_of_variant_meta(acc, meta)
         IN  IF r.ok THEN parse_attrs(which, attrs, k + 1, r.v) ELSE AttrErr

\* attr::get: the FieldAttrs of a field.
get(field) ==
    parse_attrs("get", field.attrs, 1,
                [rename |-> None, skip_serializing_if |-> None,
                 default |-> DefaultNone])

\* attr::get_container: the ContainerAttrs of the derive input.
get_container(input) ==
    parse_attrs("get_container", input.attrs, 1, [default |-> DefaultNone])

\* str::trim_start_matches: the pattern is taken off the front as often as
\* it is there.
RECURSIVE trim_start_matches(_, _)
trim_start_matches(s, pat) ==
    IF Len(s) >= Len(pat) /\ SubSeq(s, 1, Len(pat)) = pat
    THEN trim_start_matches(SubSeq(s, Len(pat) + 1, Len(s)), pat)
    ELSE s

RAW_PREFIX == <<114, 35>>

\* An unraw that leaves the identifier as it is written.
unraw_keep(ident) == ident

\* attr::unraw
unraw(ident) == trim_start_matches(ident, RAW_PREFIX)

\* attr::name_of_field
name_of_field(field) ==
    LET attrs == get(field) IN
    IF ~attrs.ok THEN AttrErr
    ELSE AttrOk(IF attrs.v.rename # None THEN attrs.v.rename[1]
                ELSE unraw(field.ident))

\* attr::name_of_variant
name_of_variant(var) ==
    LET r == parse_attrs("name_of_variant", var.attrs, 1, [rename |-> None]) IN
    IF ~r.ok THEN AttrErr
    ELSE AttrOk(IF r.v.rename # None THEN r.v.rename[1] ELSE unraw(var.ident))

\* ------------------------------------------------------------------ state

VARIABLES
    input,          \* j: the bytes to parse
    validate_utf8,  \* Deserializer::validate_utf8: from_slice (TRUE) or from_str
    cpu,            \* the scanner back end the CPU selects
    T,              \* the Deserialize type: "Value", or "Any" (callbacks may fail)
    pos,            \* Deserializer::pos
    buffer,         \* Deserializer::buffer, the scratch buffer
    stack,          \* Deserializer::stack: frames (outer visitor, layer)
    visitor,        \* the current Visitor
    layer,          \* the layer the driver holds outside the stack
    accept_comma,   \* accept_comma of the delimiter loop
    pc,             \* where the driver and the writer stand
    out,            \* from_str's `out`: the place of the root Visitor
    handles,        \* the Seq/Map handles the Visitors returned, by identity
    trace,          \* history: the calls made on Visitors and handles, the drops
    result,         \* what from_str / from_slice returned
    ser_stack,      \* Serializer::stack of to_writer_impl
    fragment,       \* the value whose Fragment the writer looks at next
    text,           \* the writer's output
    target,         \* the &Value the caller holds: the value, or what indexing gave
    path,           \* the indexes the caller applied to the value so far
    ret,            \* what the last accessor call returned
    item,           \* the struct or enum under #[derive(Serialize, Deserialize)]
    derived,        \* what the derive macro made of the item
    call,           \* the last to_string / from_str call on the derived type
    lexed,          \* what the last call of Deserializer::event returned
    conv,           \* a call of f64_from_parts: its arguments and its result
    value_stack,    \* to_value: the layers under construction
    value_fragment, \* to_value: the Fragment to look at next
    current_val     \* to_value: the Value completed last

vars == <<input, validate_utf8, cpu, T, pos, buffer, stack, visitor, layer,
          accept_comma, pc, out, handles, trace, result, ser_stack, fragment,
          text, target, path, ret, item, derived, call, lexed,
          conv, value_stack, value_fragment, current_val>>

deVars == <<pos, buffer, stack, visitor, layer, accept_comma, out, handles,
            trace, result>>
serVars == <<ser_stack, fragment, text>>
caseVars == <<input, validate_utf8, cpu, T>>
deriveVars == <<item, derived, call>>
lexVars == <<lexed, conv>>
valueVars == <<value_stack, value_fragment, current_val>>
apiVars == <<target, path, ret, deriveVars, lexVars, valueVars>>

\* A Visitor is known by the handle whose element()/key() returned it and by
\* the ordinal of that call; the root Visitor is (0, 0).
Vis(h, n) == [h |-> h, n |-> n]
RootVisitor == Vis(0, 0)

NoLayer == [kind |-> "None", h |-> 0]
Layer(kind, h) == [kind |-> kind, h |-> h]

NoValue == [t |-> "None"]
NoRet == [fn |-> "None"]
\* The result of a call of event and the position at which it was made.
Lexed(r, from) ==
    [ok |-> r.ok, pos |-> r.pos, ev |-> r.ev, buf |-> r.buf, from |-> from]
NoLexed == Lexed(LexErr(0, <<>>), 0)
NoConv == [fn |-> "none"]
NoItem == [kind |-> "None"]
NoDerived == [ok |-> FALSE, kind |-> "None"]
Pending == [tag |-> "Pending", value |-> NoValue]
ResErr == [tag |-> "Err", value |-> NoValue]
ResOk(v) == [tag |-> "Ok", value |-> v]

Entry(op, v, h, p, ok, arg) ==
    [op |-> op, vh |-> v.h, vn |-> v.n, h |-> h, pos |-> p, ok |-> ok,
     arg |-> arg]

ValueOps == {"null", "boolean", "negative", "nonnegative", "float", "string",
             "seq", "map"}
HandleOps == {"element", "key", "finish"}
FailureOps == {"lex_error", "syntax_error"}

\* ----------------------------------------- the Visitor of Value (value.rs)

\* Writing through a place: the root place is `out`, the place of a Visitor
\* that handle h returned is h's element / value slot.
Place_write(o, hs, v, val) ==
    IF v.h = 0 THEN [out |-> Some(val), handles |-> hs]
    ELSE [out |-> o, handles |-> [hs EXCEPT ![v.h].slot = Some(val)]]

ValueOfEvent(ev) ==
    IF ev.e = "Null" THEN VNull
    ELSE IF ev.e = "Bool" THEN VBool(ev.b)
    ELSE IF ev.e = "Str" THEN VString(ev.s)
    ELSE IF ev.e = "Negative" THEN VNumber(NI64(ev.n))
    ELSE IF ev.e = "Nonnegative" THEN VNumber(NU64(ev.n))
    ELSE VNumber(NF64(ev.f))

OpOfEvent(ev) ==
    IF ev.e = "Null" THEN "null"
    ELSE IF ev.e = "Bool" THEN "boolean"
    ELSE IF ev.e = "Str" THEN "string"
    ELSE IF ev.e = "Negative" THEN "negative"
    ELSE IF ev.e = "Nonnegative" THEN "nonnegative"
    ELSE IF ev.e = "Float" THEN "float"
    ELSE IF ev.e = "SeqStart" THEN "seq"
    ELSE "map"

\* Place::seq / Place::map: a new ArrayBuilder / ObjectBuilder writing to the
\* place of Visitor v.
NewHandle(kind, v) ==
    [kind |-> kind, out |-> v, items |-> <<>>, key |-> None, slot |-> None,
     calls |-> 0, live |-> TRUE]

ArrayBuilder_shift(b) ==
    IF b.slot # None
    THEN [b EXCEPT !.items = Append(@, b.slot[1]), !.slot = None]
    ELSE b

\* An insert that leaves an entry alone when its key is there already.
RECURSIVE Object_insert_new(_, _, _)
Object_insert_new(o, k, v) ==
    IF o = <<>> THEN <<[k |-> k, v |-> v]>>
    ELSE IF o[1].k = k THEN o
    ELSE IF StrLess(k, o[1].k) THEN <<[k |-> k, v |-> v]>> \o o
    ELSE <<o[1]>> \o Object_insert_new(Tail(o), k, v)

\* A builder that keeps the first value of a key.
ObjectBuilder_shift_first(b) ==
    IF b.key # None /\ b.slot # None
    THEN [b EXCEPT !.items = Object_insert_new(@, b.key[1], b.slot[1]),
                   !.key = None, !.slot = None]
    ELSE [b EXCEPT !.key = None, !.slot = None]

ObjectBuilder_shift(b) ==
    IF b.key # None /\ b.slot # None
    THEN [b EXCEPT !.items = Object_insert(@, b.key[1], b.slot[1]),
                   !.key = None, !.slot = None]
    ELSE [b EXCEPT !.key = None, !.slot = None]

\* ArrayBuilder::element
ArrayBuilder_element(hs, h) ==
    [hs EXCEPT ![h] = [ArrayBuilder_shift(@) EXCEPT !.calls = @ + 1]]

\* ObjectBuilder::key
ObjectBuilder_key(hs, h, k) ==
    [hs EXCEPT ![h] = [ObjectBuilder_shift(@) EXCEPT !.key = Some(k),
                                                      !.calls = @ + 1]]

\* finish() without the shift(): the last element or member is left behind.
Builder_finish_NoShift(o, hs, h) ==
    LET b == hs[h]
        val == IF b.kind = "Seq" THEN VArray(b.items) ELSE VObject(b.items)
    IN  Place_write(o, [hs EXCEPT ![h] = [b EXCEPT !.items = <<>>]], b.out, val)

\* ArrayBuilder::finish / ObjectBuilder::finish
Builder_finish(o, hs, h) ==
    LET b == IF hs[h].kind = "Seq" THEN ArrayBuilder_shift(hs[h])
             ELSE ObjectBuilder_shift(hs[h])
        val == IF b.kind = "Seq" THEN VArray(b.items) ELSE VObject(b.items)
    IN  Place_write(o, [hs EXCEPT ![h] = [b EXCEPT !.items = <<>>]], b.out, val)

\* ------------------------------------------------ dropping (de.rs 64-71)

Reverse(s) == [i \in 1..Len(s) |-> s[Len(s) + 1 - i]]

\* What Vec's own drop does without the Drop impl: front to back, the
\* outermost layer first.
DropOrder_Outermost(stk) == [i \in 1..Len(stk) |-> stk[i].layer]

\* Drop for Deserializer pops the stack: the layers go innermost first.
DropOrder(stk) == Reverse([i \in 1..Len(stk) |-> stk[i].layer])

DropEntries(ls, p) ==
    [i \in 1..Len(ls) |-> Entry("drop", RootVisitor, ls[i].h, p, TRUE, <<>>)]

Dropped(hs, ls) ==
    [h \in 1..Len(hs) |->
        IF \E i \in 1..Len(ls) : ls[i].h = h
        THEN [hs[h] EXCEPT !.live = FALSE] ELSE hs[h]]

\* An error that is swallowed: the driver leaves the loop as if the root value
\* were complete and goes on to the trailing check.
Fail_Swallow(tr, hs, held, p) ==
    /\ trace' = tr \o DropEntries(held \o DropOrder(stack), p)
    /\ handles' = Dropped(hs, held \o DropOrder(stack))
    /\ stack' = <<>>
    /\ layer' = NoLayer
    /\ pos' = p
    /\ pc' = "trailing"
    /\ result' = result

\* An error return of from_slice_impl: the locals go out of scope (`held`:
\* the layer the driver holds, if any), then the Deserializer is dropped, and
\* from_str / from_slice pass the error on.
Fail(tr, hs, held, p) ==
    /\ trace' = tr \o DropEntries(held \o DropOrder(stack), p)
    /\ handles' = Dropped(hs, held \o DropOrder(stack))
    /\ stack' = <<>>
    /\ layer' = NoLayer
    /\ pos' = p
    /\ pc' = "done"
    /\ result' = ResErr

\* What a callback may return: a Visitor of Value never fails, one of another
\* type may.
Returns == IF T = "Any" THEN {TRUE, FALSE} ELSE {TRUE}


\* ------------------------------------- from_slice_impl (de.rs 140-268)

ArgOf(ev) == IF ev.e = "Str" THEN ev.s ELSE <<>>

\* The topmost frame is taken up again and stays on the stack.
PopFrame_Peek ==
    IF stack = <<>>
    THEN /\ pc' = "trailing"
         /\ layer' = NoLayer
         /\ UNCHANGED <<stack, visitor, accept_comma>>
    ELSE /\ pc' = "delim"
         /\ accept_comma' = TRUE
         /\ visitor' = Last(stack).outer
         /\ layer' = Last(stack).layer
         /\ stack' = stack

\* The frame popped after a value is complete, or the end of the outer loop
\* when the stack is empty.
PopFrame ==
    IF stack = <<>>
    THEN /\ pc' = "trailing"
         /\ layer' = NoLayer
         /\ UNCHANGED <<stack, visitor, accept_comma>>
    ELSE /\ pc' = "delim"
         /\ accept_comma' = TRUE
         /\ visitor' = Last(stack).outer
         /\ layer' = Last(stack).layer
         /\ stack' = Front(stack)

\* de.event()? fails at the top of the outer loop.
EventLexError ==
    /\ pc = "event"
    /\ \E r \in {event(input, validate_utf8, cpu, pos, buffer)} :
        /\ ~r.ok
        /\ buffer' = r.buf
        /\ Fail(Append(trace, Entry("lex_error", visitor, 0, r.pos, FALSE, <<>>)),
                handles, <<>>, r.pos)
    /\ UNCHANGED <<visitor, accept_comma, out, caseVars, apiVars, serVars>>

\* A scalar event goes to the current Visitor; then the topmost frame is popped.
EventScalar ==
    /\ pc = "event"
    /\ \E r \in {event(input, validate_utf8, cpu, pos, buffer)} :
        /\ r.ok
        /\ r.ev.e \notin {"SeqStart", "MapStart"}
        /\ \E w \in {Place_write(out, handles, visitor, ValueOfEvent(r.ev))} :
            /\ out' = w.out
            /\ handles' = w.handles
        /\ trace' = Append(trace, Entry(OpOfEvent(r.ev), visitor, 0, r.pos,
                                        TRUE, ArgOf(r.ev)))
        /\ pos' = r.pos
        /\ buffer' = r.buf
    /\ PopFrame
    /\ UNCHANGED <<result, caseVars, apiVars, serVars>>

\* SeqStart / MapStart: visitor.seq() / visitor.map() returns a new handle,
\* which becomes the current layer.
EventStart ==
    /\ pc = "event"
    /\ \E r \in {event(input, validate_utf8, cpu, pos, buffer)} :
        /\ r.ok
        /\ r.ev.e \in {"SeqStart", "MapStart"}
        /\ \E kind \in {IF r.ev.e = "SeqStart" THEN "Seq" ELSE "Map"},
              h \in {Len(handles) + 1} :
            /\ handles' = Append(handles, NewHandle(kind, visitor))
            /\ trace' = Append(trace, Entry(OpOfEvent(r.ev), visitor, h, r.pos,
                                            TRUE, <<>>))
            /\ layer' = Layer(kind, h)
        /\ pos' = r.pos
        /\ buffer' = r.buf
    /\ accept_comma' = FALSE
    /\ pc' = "delim"
    /\ UNCHANGED <<stack, visitor, out, result, caseVars, apiVars, serVars>>

\* The Visitor method called for the event returns an error.
EventVisitorError ==
    /\ pc = "event"
    /\ FALSE \in Returns
    /\ \E r \in {event(input, validate_utf8, cpu, pos, buffer)} :
        /\ r.ok
        /\ buffer' = r.buf
        /\ Fail(Append(trace, Entry(OpOfEvent(r.ev), visitor, 0, r.pos, FALSE,
                                    ArgOf(r.ev))),
                handles, <<>>, r.pos)
    /\ UNCHANGED <<visitor, accept_comma, out, caseVars, apiVars, serVars>>

\* A driver that takes either closing bracket for either kind of layer.
Closes_Any(kind, byte) == byte = RBRACKET \/ byte = RBRACE

Closes(kind, byte) ==
    \/ kind = "Seq" /\ byte = RBRACKET
    \/ kind = "Map" /\ byte = RBRACE

IsClose(byte) == byte = RBRACKET \/ byte = RBRACE

\* A driver that takes a ',' wherever it meets one, also right after the
\* opening bracket.
DelimComma_Always ==
    /\ pc = "delim"
    /\ \E sk \in {skip_whitespace_and_peek_class(input, pos)} :
        /\ sk.byte = COMMA
        /\ pos' = sk.pos + 1
    /\ pc' = "element"
    /\ UNCHANGED <<buffer, stack, visitor, layer, accept_comma, out, handles,
                   trace, result, caseVars, apiVars, serVars>>

\* A delimiter loop that sees the ',' and goes round again without taking it.
DelimComma_NoBump ==
    /\ pc = "delim"
    /\ \E sk \in {skip_whitespace_and_peek_class(input, pos)} :
        /\ sk.byte = COMMA
        /\ accept_comma
        /\ pos' = sk.pos
    /\ pc' = "delim"
    /\ UNCHANGED <<buffer, stack, visitor, layer, accept_comma, out, handles,
                   trace, result, caseVars, apiVars, serVars>>

\* ',' after a complete element: on to the next element.
DelimComma ==
    /\ pc = "delim"
    /\ \E sk \in {skip_whitespace_and_peek_class(input, pos)} :
        /\ sk.byte = COMMA
        /\ accept_comma
        /\ pos' = sk.pos + 1
    /\ pc' = "element"
    /\ UNCHANGED <<buffer, stack, visitor, layer, accept_comma, out, handles,
                   trace, result, caseVars, apiVars, serVars>>

\* A driver that finishes the layer on its closing bracket but goes on with
\* the same layer instead of the frame around it.
DelimClose_KeepLayer ==
    /\ pc = "delim"
    /\ \E sk \in {skip_whitespace_and_peek_class(input, pos)} :
        /\ IsClose(sk.byte)
        /\ Closes(layer.kind, sk.byte)
        /\ pos' = sk.pos + 1
        /\ \E w \in {Builder_finish(out, handles, layer.h)} :
            /\ out' = w.out
            /\ handles' = w.handles
        /\ trace' = Append(trace, Entry("finish", RootVisitor, layer.h,
                                        sk.pos + 1, TRUE, <<>>))
    /\ accept_comma' = TRUE
    /\ UNCHANGED <<pc, stack, visitor, layer, buffer, result, caseVars, apiVars,
                   serVars>>

\* ']' or '}' matching the current layer: finish() it, drop it and pop the
\* frame around it.
DelimClose ==
    /\ pc = "delim"
    /\ \E sk \in {skip_whitespace_and_peek_class(input, pos)} :
        /\ IsClose(sk.byte)
        /\ Closes(layer.kind, sk.byte)
        /\ pos' = sk.pos + 1
        /\ \E w \in {Builder_finish(out, handles, layer.h)} :
            /\ out' = w.out
            /\ handles' = Dropped(w.handles, <<layer>>)
        /\ trace' = trace
              \o <<Entry("finish", RootVisitor, layer.h, sk.pos + 1, TRUE, <<>>)>>
              \o DropEntries(<<layer>>, sk.pos + 1)
    /\ PopFrame
    /\ UNCHANGED <<buffer, result, caseVars, apiVars, serVars>>

\* finish() returns an error.
DelimFinishError ==
    /\ pc = "delim"
    /\ FALSE \in Returns
    /\ \E sk \in {skip_whitespace_and_peek_class(input, pos)} :
        /\ IsClose(sk.byte)
        /\ Closes(layer.kind, sk.byte)
        /\ Fail(Append(trace, Entry("finish", RootVisitor, layer.h, sk.pos + 1,
                                    FALSE, <<>>)),
                handles, <<layer>>, sk.pos + 1)
    /\ UNCHANGED <<buffer, visitor, accept_comma, out, caseVars, apiVars,
                   serVars>>

\* ']' against a Map layer or '}' against a Seq layer.
DelimMismatch ==
    /\ pc = "delim"
    /\ \E sk \in {skip_whitespace_and_peek_class(input, pos)} :
        /\ IsClose(sk.byte)
        /\ ~Closes(layer.kind, sk.byte)
        /\ Fail(Append(trace, Entry("syntax_error", visitor, layer.h,
                                    sk.pos + 1, FALSE, <<>>)),
                handles, <<layer>>, sk.pos + 1)
    /\ UNCHANGED <<buffer, visitor, accept_comma, out, caseVars, apiVars,
                   serVars>>

\* Anything else after a complete element: a missing comma or closer.
DelimMissing ==
    /\ pc = "delim"
    /\ \E sk \in {skip_whitespace_and_peek_class(input, pos)} :
        /\ ~IsClose(sk.byte)
        /\ accept_comma
        /\ sk.byte # COMMA
        /\ Fail(Append(trace, Entry("syntax_error", visitor, layer.h, sk.pos,
                                    FALSE, <<>>)),
                handles, <<layer>>, sk.pos)
    /\ UNCHANGED <<buffer, visitor, accept_comma, out, caseVars, apiVars,
                   serVars>>

\* Anything else right after the opening bracket: the first element.
DelimFirst ==
    /\ pc = "delim"
    /\ \E sk \in {skip_whitespace_and_peek_class(input, pos)} :
        /\ ~IsClose(sk.byte)
        /\ ~accept_comma
        /\ pos' = sk.pos
    /\ pc' = "element"
    /\ UNCHANGED <<buffer, stack, visitor, layer, accept_comma, out, handles,
                   trace, result, caseVars, apiVars, serVars>>

\* An element phase that moves on to the element without pushing the frame.
PushFrame_NoPush(v) ==
    /\ stack' = stack
    /\ visitor' = v
    /\ layer' = NoLayer
    /\ pc' = "event"

\* The frame pushed for the element about to be read.
PushFrame(v) ==
    /\ stack' = Append(stack, [outer |-> visitor, layer |-> layer])
    /\ visitor' = v
    /\ layer' = NoLayer
    /\ pc' = "event"

\* A driver that hands the next element to the Visitor it already has,
\* without asking the handle for one: element() is not called.
ElementSeq_Reuse ==
    /\ pc = "element"
    /\ layer.kind = "Seq"
    /\ PushFrame(Vis(layer.h, handles[layer.h].calls))
    /\ UNCHANGED <<pos, buffer, accept_comma, out, handles, trace, result,
                   caseVars, apiVars, serVars>>

\* Seq layer: element() gives the Visitor of the next element.
ElementSeq ==
    /\ pc = "element"
    /\ layer.kind = "Seq"
    /\ \E hs \in {ArrayBuilder_element(handles, layer.h)} :
        \E v \in {Vis(layer.h, hs[layer.h].calls)} :
            /\ handles' = hs
            /\ trace' = Append(trace, Entry("element", v, layer.h, pos, TRUE, <<>>))
            /\ PushFrame(v)
    /\ UNCHANGED <<pos, buffer, accept_comma, out, result, caseVars,
                   apiVars, serVars>>

\* element() returns an error.
ElementSeqError ==
    /\ pc = "element"
    /\ layer.kind = "Seq"
    /\ FALSE \in Returns
    /\ Fail(Append(trace, Entry("element", RootVisitor, layer.h, pos, FALSE, <<>>)),
            handles, <<layer>>, pos)
    /\ UNCHANGED <<buffer, visitor, accept_comma, out, caseVars, apiVars,
                   serVars>>

\* A Map layer that pushes the frame after key(k) whether a ':' follows or
\* not.
ElementMap_NoColon ==
    /\ pc = "element"
    /\ layer.kind = "Map"
    /\ \E sk \in {skip_whitespace_and_peek_class(input, pos)} :
        /\ sk.byte = QUOTE
        /\ \E r \in {event(input, validate_utf8, cpu, sk.pos, buffer)} :
            /\ r.ok
            /\ \E hs \in {ObjectBuilder_key(handles, layer.h, r.ev.s)},
                  colon \in {skip_whitespace_and_peek_class(input, r.pos)} :
                \E v \in {Vis(layer.h, hs[layer.h].calls)} :
                    /\ handles' = hs
                    /\ trace' = Append(trace, Entry("key", v, layer.h, r.pos,
                                                    TRUE, r.ev.s))
                    /\ pos' = IF colon.byte = COLON THEN colon.pos + 1 ELSE colon.pos
                    /\ buffer' = r.buf
                    /\ PushFrame(v)
    /\ UNCHANGED <<accept_comma, out, result, caseVars, apiVars, serVars>>

\* Map layer: a string key, key(k) gives the Visitor of its value, then ':'.
ElementMap ==
    /\ pc = "element"
    /\ layer.kind = "Map"
    /\ \E sk \in {skip_whitespace_and_peek_class(input, pos)} :
        /\ sk.byte = QUOTE
        /\ \E r \in {event(input, validate_utf8, cpu, sk.pos, buffer)} :
            /\ r.ok
            /\ \E hs \in {ObjectBuilder_key(handles, layer.h, r.ev.s)},
                  colon \in {skip_whitespace_and_peek_class(input, r.pos)} :
                \E v \in {Vis(layer.h, hs[layer.h].calls)} :
                    /\ colon.byte = COLON
                    /\ handles' = hs
                    /\ trace' = Append(trace, Entry("key", v, layer.h, r.pos,
                                                    TRUE, r.ev.s))
                    /\ pos' = colon.pos + 1
                    /\ buffer' = r.buf
                    /\ PushFrame(v)
    /\ UNCHANGED <<accept_comma, out, result, caseVars, apiVars, serVars>>

\* The next byte of a Map layer is not a '"'.
ElementMapNoKey ==
    /\ pc = "element"
    /\ layer.kind = "Map"
    /\ \E sk \in {skip_whitespace_and_peek_class(input, pos)} :
        /\ sk.byte # QUOTE
        /\ Fail(Append(trace, Entry("syntax_error", visitor, layer.h, sk.pos,
                                    FALSE, <<>>)),
                handles, <<layer>>, sk.pos)
    /\ UNCHANGED <<buffer, visitor, accept_comma, out, caseVars, apiVars,
                   serVars>>

\* The key string does not lex.
ElementMapKeyLexError ==
    /\ pc = "element"
    /\ layer.kind = "Map"
    /\ \E sk \in {skip_whitespace_and_peek_class(input, pos)} :
        /\ sk.byte = QUOTE
        /\ \E r \in {event(input, validate_utf8, cpu, sk.pos, buffer)} :
            /\ ~r.ok
            /\ buffer' = r.buf
            /\ Fail(Append(trace, Entry("lex_error", visitor, layer.h, r.pos,
                                        FALSE, <<>>)),
                    handles, <<layer>>, r.pos)
    /\ UNCHANGED <<visitor, accept_comma, out, caseVars, apiVars, serVars>>

\* key(k) returns an error.
ElementMapKeyError ==
    /\ pc = "element"
    /\ layer.kind = "Map"
    /\ FALSE \in Returns
    /\ \E sk \in {skip_whitespace_and_peek_class(input, pos)} :
        /\ sk.byte = QUOTE
        /\ \E r \in {event(input, validate_utf8, cpu, sk.pos, buffer)} :
            /\ r.ok
            /\ buffer' = r.buf
            /\ Fail(Append(trace, Entry("key", RootVisitor, layer.h, r.pos,
                                        FALSE, r.ev.s)),
                    handles, <<layer>>, r.pos)
    /\ UNCHANGED <<visitor, accept_comma, out, caseVars, apiVars, serVars>>

\* No ':' after the key: key(k) was called, its Visitor is never used.
ElementMapNoColon ==
    /\ pc = "element"
    /\ layer.kind = "Map"
    /\ \E sk \in {skip_whitespace_and_peek_class(input, pos)} :
        /\ sk.byte = QUOTE
        /\ \E r \in {event(input, validate_utf8, cpu, sk.pos, buffer)} :
            /\ r.ok
            /\ \E hs \in {ObjectBuilder_key(handles, layer.h, r.ev.s)},
                  colon \in {skip_whitespace_and_peek_class(input, r.pos)} :
                \E v \in {Vis(layer.h, hs[layer.h].calls)} :
                    /\ colon.byte # COLON
                    /\ buffer' = r.buf
                    /\ Fail(trace \o <<Entry("key", v, layer.h, r.pos, TRUE,
                                             r.ev.s),
                                       Entry("syntax_error", v, layer.h,
                                             colon.pos, FALSE, <<>>)>>,
                            hs, <<layer>>, colon.pos)
    /\ UNCHANGED <<visitor, accept_comma, out, caseVars, apiVars, serVars>>

\* After the root value: anything but whitespace is an error.
TrailingGarbage ==
    /\ pc = "trailing"
    /\ \E sk \in {skip_whitespace_and_peek_class(input, pos)} :
        /\ sk.byte # NoByte
        /\ Fail(Append(trace, Entry("syntax_error", visitor, 0, sk.pos, FALSE,
                                    <<>>)),
                handles, <<>>, sk.pos)
    /\ UNCHANGED <<buffer, visitor, accept_comma, out, caseVars, apiVars,
                   serVars>>

\* A driver that returns Ok(()) once the root value is complete, whatever is
\* left of the input.
ReturnOk_Unchecked ==
    /\ pc = "trailing"
    /\ result' = IF out # None THEN ResOk(out[1]) ELSE ResErr
    /\ pc' = "done"
    /\ UNCHANGED <<pos, buffer, stack, visitor, layer, accept_comma, out,
                   handles, trace, caseVars, apiVars, serVars>>

\* Only whitespace is left: from_slice_impl returns Ok(()), and from_str /
\* from_slice return out.ok_or(Error).
ReturnOk ==
    /\ pc = "trailing"
    /\ \E sk \in {skip_whitespace_and_peek_class(input, pos)} :
        /\ sk.byte = NoByte
        /\ pos' = sk.pos
    /\ result' = IF out # None THEN ResOk(out[1]) ELSE ResErr
    /\ pc' = "done"
    /\ UNCHANGED <<buffer, stack, visitor, layer, accept_comma, out, handles,
                   trace, caseVars, apiVars, serVars>>


\* ------------------------------------------- to_writer_impl (ser.rs 204-292)

\* The escape codes of the ESCAPE table.
BB == LOWER_B
TT == LOWER_T
NN == LOWER_N
FF == LOWER_F
RR == LOWER_R
QU == QUOTE
BS == BACKSLASH
UU == LOWER_U

\* A table that escapes only the bytes with a short escape and the two
\* delimiters, and leaves the other control bytes alone.
ESCAPE_short_only(b) ==
    IF b = 8 THEN BB
    ELSE IF b = 9 THEN TT
    ELSE IF b = 10 THEN NN
    ELSE IF b = 12 THEN FF
    ELSE IF b = 13 THEN RR
    ELSE IF b = 34 THEN QU
    ELSE IF b = 92 THEN BS
    ELSE 0

\* ESCAPE: the code of a byte, 0 for a byte that is not escaped.
ESCAPE(b) ==
    IF b = 8 THEN BB
    ELSE IF b = 9 THEN TT
    ELSE IF b = 10 THEN NN
    ELSE IF b = 12 THEN FF
    ELSE IF b = 13 THEN RR
    ELSE IF b < 32 THEN UU
    ELSE IF b = 34 THEN QU
    ELSE IF b = 92 THEN BS
    ELSE 0

\* A table of digits that goes on past '9' in the order of the bytes.
HEX_DIGITS_run(n) == DIGIT0 + n

\* HEX_DIGITS = b"0123456789abcdef"
HEX_DIGITS(n) == IF n < 10 THEN DIGIT0 + n ELSE LOWER_A + (n - 10)

RECURSIVE escape_loop(_, _, _, _)
escape_loop(bytes, i, start, acc) ==
    IF i = Len(bytes) THEN
        IF start < Len(bytes)
        THEN acc \o SubSeq(bytes, start + 1, Len(bytes))
        ELSE acc
    ELSE LET byte == bytes[i + 1]
             escape == ESCAPE(byte)
             flushed == IF start < i THEN acc \o SubSeq(bytes, start + 1, i)
                        ELSE acc
         IN
        IF escape = 0 THEN escape_loop(bytes, i + 1, start, acc)
        ELSE IF escape = UU
            THEN escape_loop(bytes, i + 1, i + 1,
                     flushed \o <<BACKSLASH, LOWER_U, DIGIT0, DIGIT0,
                                  HEX_DIGITS(byte \div 16), HEX_DIGITS(byte % 16)>>)
        ELSE escape_loop(bytes, i + 1, i + 1, flushed \o <<BACKSLASH, escape>>)

\* A writer that quotes a string without escaping anything in it.
escape_str_raw(value) == <<QUOTE>> \o value \o <<QUOTE>>

escape_str(value) == escape_loop(value, 0, 0, <<QUOTE>>) \o <<QUOTE>>

\* itoa::Buffer::format for a u64 and for an i64.
itoa_u64(n) == [i \in 1..Len(n) |-> DIGIT0 + n[i]]
itoa_i64(n) == IF n.neg THEN <<MINUS>> \o itoa_u64(n.mag) ELSE itoa_u64(n.mag)

RECURSIVE DecimalOf(_)
DecimalOf(n) ==
    IF n < 10 THEN <<DIGIT0 + n>> ELSE Append(DecimalOf(n \div 10), DIGIT0 + (n % 10))

SignedDecimal(n) == IF n < 0 THEN <<MINUS>> \o DecimalOf(0 - n) ELSE DecimalOf(n)

RECURSIVE TrailingZeros(_)
TrailingZeros(d) ==
    IF Len(d) > 1 /\ Last(d) = 0 THEN 1 + TrailingZeros(Front(d)) ELSE 0

Zeros(n) == [i \in 1..n |-> DIGIT0]

\* ryu::Buffer::format_finite: the shortest decimal that reads back as the
\* same f64, laid out as ryu lays it out.  The shortest digits of sig * 10^exp
\* are those of sig without its trailing zeros.
ryu_format_finite(f) ==
    LET tz == TrailingZeros(f.sig)
        digits == itoa_u64(SubSeq(f.sig, 1, Len(f.sig) - tz))
        length == Len(digits)
        k == f.exp + tz
        kk == length + k
        sign == IF f.neg THEN <<MINUS>> ELSE <<>>
    IN
    IF f.sig = Zero THEN sign \o <<DIGIT0, DOT, DIGIT0>>
    ELSE IF 0 <= k /\ kk <= 16 THEN sign \o digits \o Zeros(k) \o <<DOT, DIGIT0>>
    ELSE IF 0 < kk /\ kk <= 16
        THEN sign \o SubSeq(digits, 1, kk) \o <<DOT>> \o SubSeq(digits, kk + 1, length)
    ELSE IF 0 - 5 < kk /\ kk <= 0
        THEN sign \o <<DIGIT0, DOT>> \o Zeros(0 - kk) \o digits
    ELSE IF length = 1
        THEN sign \o digits \o <<LOWER_E>> \o SignedDecimal(kk - 1)
    ELSE sign \o <<digits[1], DOT>> \o Tail(digits) \o <<LOWER_E>>
              \o SignedDecimal(kk - 1)

NULL_TEXT == <<LOWER_N, LOWER_U, LOWER_L, LOWER_L>>
TRUE_TEXT == <<LOWER_T, LOWER_R, LOWER_U, LOWER_E>>
FALSE_TEXT == <<LOWER_F, LOWER_A, LOWER_L, LOWER_S, LOWER_E>>

NoFragment == [f |-> "None"]

\* Serialize::begin for Value, Number, Array and Object: the Fragment of a
\* value.  A Seq / Map fragment is the iterator over what is left to yield.
begin(v) ==
    IF v.t = "Null" THEN [f |-> "Null"]
    ELSE IF v.t = "Bool" THEN [f |-> "Bool", b |-> v.b]
    ELSE IF v.t = "Number" THEN [f |-> v.n.k, n |-> v.n.v]
    ELSE IF v.t = "String" THEN [f |-> "Str", s |-> v.s]
    ELSE IF v.t = "Array" THEN [f |-> "Seq", rest |-> v.a]
    ELSE [f |-> "Map", rest |-> v.o]

\* The scalar arms without the is_finite() test: every f64 goes to ryu.
ScalarText_always_ryu(fr) ==
    IF fr.f = "Null" THEN NULL_TEXT
    ELSE IF fr.f = "Bool" THEN (IF fr.b THEN TRUE_TEXT ELSE FALSE_TEXT)
    ELSE IF fr.f = "Str" THEN escape_str(fr.s)
    ELSE IF fr.f = "U64" THEN itoa_u64(fr.n)
    ELSE IF fr.f = "I64" THEN itoa_i64(fr.n)
    ELSE ryu_format_finite(fr.n)

\* What the writer emits for a fragment that is not a Seq or a Map.
ScalarText(fr) ==
    IF fr.f = "Null" THEN NULL_TEXT
    ELSE IF fr.f = "Bool" THEN (IF fr.b THEN TRUE_TEXT ELSE FALSE_TEXT)
    ELSE IF fr.f = "Str" THEN escape_str(fr.s)
    ELSE IF fr.f = "U64" THEN itoa_u64(fr.n)
    ELSE IF fr.f = "I64" THEN itoa_i64(fr.n)
    ELSE IF is_finite(fr.n) THEN ryu_format_finite(fr.n)
    ELSE NULL_TEXT

\* to_string(&value) on the Value that from_str returned.
to_string ==
    /\ pc = "done"
    /\ result.tag = "Ok"
    /\ T = "Value"
    /\ fragment' = begin(result.value)
    /\ ser_stack' = <<>>
    /\ text' = <<>>
    /\ pc' = "ser_fragment"
    /\ UNCHANGED <<deVars, caseVars, apiVars>>

SerScalar ==
    /\ pc = "ser_fragment"
    /\ fragment.f \notin {"Seq", "Map"}
    /\ text' = text \o ScalarText(fragment)
    /\ pc' = "ser_post"
    /\ UNCHANGED <<fragment, ser_stack, deVars, caseVars, apiVars>>

\* A Seq or Map fragment with a first item: the bracket, the layer is
\* pushed, and the walk goes on into the first item.
SerOpen ==
    /\ pc = "ser_fragment"
    /\ fragment.f \in {"Seq", "Map"}
    /\ fragment.rest # <<>>
    /\ LET first == fragment.rest[1] IN
        IF fragment.f = "Seq"
        THEN /\ text' = Append(text, LBRACKET)
             /\ fragment' = begin(first)
        ELSE /\ text' = Append(text, LBRACE) \o escape_str(first.k) \o <<COLON>>
             /\ fragment' = begin(first.v)
    /\ ser_stack' = Append(ser_stack, [kind |-> fragment.f,
                                       rest |-> Tail(fragment.rest)])
    /\ UNCHANGED <<pc, deVars, caseVars, apiVars>>

\* A Seq or Map fragment that yields nothing.
SerOpenEmpty ==
    /\ pc = "ser_fragment"
    /\ fragment.f \in {"Seq", "Map"}
    /\ fragment.rest = <<>>
    /\ text' = text \o (IF fragment.f = "Seq" THEN <<LBRACKET, RBRACKET>>
                        ELSE <<LBRACE, RBRACE>>)
    /\ pc' = "ser_post"
    /\ UNCHANGED <<fragment, ser_stack, deVars, caseVars, apiVars>>

\* After a value: the layer on top yields its next item.
SerNext ==
    /\ pc = "ser_post"
    /\ ser_stack # <<>>
    /\ Last(ser_stack).rest # <<>>
    /\ LET top == Last(ser_stack)
           next == top.rest[1]
       IN
        /\ IF top.kind = "Seq"
           THEN /\ text' = Append(text, COMMA)
                /\ fragment' = begin(next)
           ELSE /\ text' = Append(text, COMMA) \o escape_str(next.k) \o <<COLON>>
                /\ fragment' = begin(next.v)
        /\ ser_stack' = [ser_stack EXCEPT ![Len(ser_stack)].rest = Tail(top.rest)]
    /\ pc' = "ser_fragment"
    /\ UNCHANGED <<deVars, caseVars, apiVars>>

\* The closing bracket is the one of the outermost layer.
SerClose_Outermost ==
    /\ pc = "ser_post"
    /\ ser_stack # <<>>
    /\ Last(ser_stack).rest = <<>>
    /\ text' = Append(text, IF ser_stack[1].kind = "Seq" THEN RBRACKET
                            ELSE RBRACE)
    /\ ser_stack' = Front(ser_stack)
    /\ UNCHANGED <<pc, fragment, deVars, caseVars, apiVars>>

\* After a value: the layer on top is exhausted and is popped.
SerClose ==
    /\ pc = "ser_post"
    /\ ser_stack # <<>>
    /\ Last(ser_stack).rest = <<>>
    /\ text' = Append(text, IF Last(ser_stack).kind = "Seq" THEN RBRACKET
                            ELSE RBRACE)
    /\ ser_stack' = Front(ser_stack)
    /\ UNCHANGED <<pc, fragment, deVars, caseVars, apiVars>>

\* After a value, with no layer left: to_writer_impl returns.
SerReturn ==
    /\ pc = "ser_post"
    /\ ser_stack = <<>>
    /\ pc' = "written"
    /\ UNCHANGED <<fragment, ser_stack, text, deVars, caseVars, apiVars>>

\* ------------------------------------------------------------- the inputs

RECURSIVE Concat(_)
Concat(ss) == IF ss = <<>> THEN <<>> ELSE ss[1] \o Concat(Tail(ss))

\* The texts made of at most n pieces of P.
PieceTexts(P, n) == {Concat(f) : f \in UNION {[1..k -> P] : k \in 0..n}}

DIGIT1 == 49
LOWER_X == 120

MaxPieces == 4
MaxNest == 3
MaxWraps == 2
MaxBody == 3

\* Texts of structural tokens, well formed or not: what the driver makes of
\* brackets, commas, colons, whitespace, a number and a string.
StructPieces ==
    {<<LBRACKET>>, <<RBRACKET>>, <<LBRACE>>, <<RBRACE>>, <<COMMA>>, <<COLON>>,
     <<SPACE>>, <<DIGIT1>>, <<QUOTE, LOWER_A, QUOTE>>}

StructTexts == PieceTexts(StructPieces, MaxPieces)

SyntaxCases ==
    [input : StructTexts, validate_utf8 : {FALSE}, cpu : {"scalar"},
     T : {"Value", "Any"}]

\* Texts of whitespace, a control byte that is no whitespace, a number and
\* an array: what may stand around the root value.
RootPieces ==
    {<<SPACE>>, <<TAB>>, <<LF>>, <<CR>>, <<FF_CTL>>, <<DIGIT1>>,
     <<LBRACKET, RBRACKET>>}

RootCases ==
    [input : PieceTexts(RootPieces, MaxPieces), validate_utf8 : {FALSE},
     cpu : {"scalar"}, T : {"Value"}]

\* J_N of test_round_trip_deeply_nested: N times {"x":[ and then N times ]}.
RECURSIVE DeepNest(_)
DeepNest(n) ==
    IF n = 0 THEN <<>>
    ELSE <<LBRACE, QUOTE, LOWER_X, QUOTE, COLON, LBRACKET>> \o DeepNest(n - 1)
         \o <<RBRACKET, RBRACE>>

DeepCases ==
    [input : {DeepNest(n) : n \in 1..MaxNest}, validate_utf8 : {FALSE, TRUE},
     cpu : {"avx2", "sse2", "scalar"}, T : {"Value"}]

\* Well-formed documents without whitespace: a scalar or an empty container,
\* wrapped at most MaxWraps times in an array or an object.
Str(body) == <<QUOTE>> \o body \o <<QUOTE>>

DocScalars ==
    {<<DIGIT1>>, <<MINUS, DIGIT1>>, <<MINUS, DIGIT0>>,
     <<DIGIT1, DOT, DIGIT0 + 5>>,
     Str(<<LOWER_A>>), Str(<<BACKSLASH, SLASH>>), Str(<<BACKSLASH, LOWER_N>>),
     Str(<<195, 169>>),
     NULL_TEXT, TRUE_TEXT, <<LBRACKET, RBRACKET>>, <<LBRACE, RBRACE>>}

KeyA == Str(<<LOWER_A>>) \o <<COLON>>
KeyB == Str(<<LOWER_B>>) \o <<COLON>>

DocWraps(x) ==
    {<<LBRACKET>> \o x \o <<RBRACKET>>,
     <<LBRACKET>> \o x \o <<COMMA, DIGIT1, RBRACKET>>,
     <<LBRACE>> \o KeyA \o x \o <<RBRACE>>,
     <<LBRACE>> \o KeyA \o x \o <<COMMA>> \o KeyB \o <<DIGIT1, RBRACE>>,
     <<LBRACE>> \o KeyB \o <<DIGIT1, COMMA>> \o KeyA \o x \o <<RBRACE>>,
     <<LBRACE>> \o KeyA \o <<DIGIT1, COMMA>> \o KeyA \o x \o <<RBRACE>>}

RECURSIVE Docs(_)
Docs(n) ==
    IF n = 0 THEN DocScalars
    ELSE LET inner == Docs(n - 1) IN inner \cup UNION {DocWraps(x) : x \in inner}

DocCases ==
    [input : Docs(MaxWraps), validate_utf8 : {FALSE}, cpu : {"scalar"},
     T : {"Value"}]

\* Strings and keys whose bodies mix ASCII, pieces of multi-byte UTF-8
\* sequences and escapes.  from_slice takes any bytes; from_str takes a &str,
\* which is valid UTF-8.
BodyPieces ==
    {<<LOWER_A>>, <<195>>, <<169>>, <<226>>,
     <<BACKSLASH>>, <<BACKSLASH, LOWER_N>>,
     <<BACKSLASH, LOWER_U, DIGIT0, DIGIT0, LOWER_E, DIGIT9>>,
     <<BACKSLASH, LOWER_U, LOWER_D, DIGIT0 + 8, DIGIT0 + 3, LOWER_D>>,
     <<BACKSLASH, LOWER_U, LOWER_D, LOWER_E, DIGIT0, DIGIT0>>}

StringTexts ==
    UNION {{Str(b), <<LBRACE>> \o Str(b) \o <<COLON, DIGIT1, RBRACE>>} :
           b \in PieceTexts(BodyPieces, MaxBody)}

StringCases ==
    {c \in [input : StringTexts, validate_utf8 : {FALSE, TRUE},
            cpu : {"scalar"}, T : {"Value"}] :
        c.validate_utf8 \/ from_utf8(c.input)}

\* Integer literals around u64::MAX and around the largest finite f64: a head
\* of digits followed by a run of zeros, short or long enough to leave the
\* range of POW10.
MaxRun == 2

IntegerHeads ==
    {<<1>>, <<9>>, TWO_63, Div10(U64_MAX), Mul10Add(Div10(Div10(U64_MAX)), 2),
     U64_MAX, TWO_64,
     <<1,8,4,4,6,7,4,4,0,7,3,7,0,9,5,5,1,6,1,4>>,
     <<9,9,9,9,9,9,9,9,9,9,9,9,9,9,9,9,9,9,9,9>>}

IntegerRuns == (0..MaxRun) \cup {POW10_LEN - 21 + k : k \in 0..MaxRun}

IntegerTexts == {itoa_u64(h) \o Zeros(n) : h \in IntegerHeads, n \in IntegerRuns}

IntegerCases ==
    [input : IntegerTexts, validate_utf8 : {FALSE}, cpu : {"scalar"},
     T : {"Value"}]


\* Strings that begin with a \u escape: a code unit at the edges of the
\* UTF-8 lengths and of the surrogate ranges, followed by nothing, by a
\* second \u escape, by a plain byte or by "u" and four hex digits without
\* their backslash.
EscUnits ==
    {0, 65, 127, 128, 2047, 2048, 55295, 55296, 56319, 56320, 57343, 57344,
     65535}

HexDigit(d, upper) ==
    IF d < 10 THEN DIGIT0 + d
    ELSE IF upper THEN UPPER_A + (d - 10) ELSE LOWER_A + (d - 10)

Hex4(n, upper) ==
    <<HexDigit(n \div 4096, upper), HexDigit((n \div 256) % 16, upper),
      HexDigit((n \div 16) % 16, upper), HexDigit(n % 16, upper)>>

EscTails ==
    {[k |-> "none", n |-> 0], [k |-> "byte", n |-> 0]}
        \cup [k : {"unit", "bare"}, n : EscUnits]

EscTailText(t) ==
    IF t.k = "none" THEN <<>>
    ELSE IF t.k = "byte" THEN <<LOWER_A>>
    ELSE IF t.k = "unit" THEN <<BACKSLASH, LOWER_U>> \o Hex4(t.n, TRUE)
    ELSE <<LOWER_U>> \o Hex4(t.n, TRUE)

EscText(n1, t) == Str(<<BACKSLASH, LOWER_U>> \o Hex4(n1, FALSE) \o EscTailText(t))

EscapeCases ==
    [input : {EscText(n1, t) : n1 \in EscUnits, t \in EscTails},
     validate_utf8 : {FALSE, TRUE}, cpu : {"scalar"}, T : {"Value"}]


\* Strings for the three back ends of the scan: a run of plain bytes of every
\* length up to past the AVX2 lane, then the end of the input, the closing
\* quote, or an escape with more plain bytes behind it.
MaxScan == 33
Plain(n) == [k \in 1..n |-> LOWER_A]
ScanTails ==
    {<<>>, <<QUOTE>>, <<BACKSLASH, LOWER_N, QUOTE>>,
     <<BACKSLASH, LOWER_N>> \o Plain(SSE2_LANE) \o <<QUOTE>>}
ScanTexts == {<<QUOTE>> \o Plain(n) \o t : n \in 0..MaxScan, t \in ScanTails}
ScanCases ==
    [input : ScanTexts, validate_utf8 : {FALSE},
     cpu : {"avx2", "sse2", "scalar"}, T : {"Value"}]

\* Containers whose body is made of items, commas and spaces in every order:
\* an array of the number 1, an object of the member "a":1.
MaxItems == 4
Member == <<QUOTE, LOWER_A, QUOTE, COLON, DIGIT1>>
ArrayBodies == PieceTexts({<<DIGIT1>>, <<COMMA>>, <<SPACE>>}, MaxItems)
ObjectBodies == PieceTexts({Member, <<COMMA>>, <<SPACE>>}, MaxItems)
CommaTexts ==
    {<<LBRACKET>> \o b \o <<RBRACKET>> : b \in ArrayBodies}
        \cup {<<LBRACE>> \o b \o <<RBRACE>> : b \in ObjectBodies}
CommaCases ==
    [input : CommaTexts, validate_utf8 : {FALSE}, cpu : {"scalar"},
     T : {"Value", "Any"}]

Cases ==
    SyntaxCases \cup RootCases \cup DeepCases \cup DocCases \cup StringCases
        \cup IntegerCases \cup EscapeCases
        \cup ScanCases \cup CommaCases

\* from_str / from_slice: `out` is None, the root Visitor is T::begin(&mut out).
Init ==
    /\ \E c \in Cases :
        /\ input = c.input
        /\ validate_utf8 = c.validate_utf8
        /\ cpu = c.cpu
        /\ T = c.T
    /\ pos = 0
    /\ buffer = <<>>
    /\ stack = <<>>
    /\ visitor = RootVisitor
    /\ layer = NoLayer
    /\ accept_comma = FALSE
    /\ pc = "event"
    /\ out = None
    /\ handles = <<>>
    /\ trace = <<>>
    /\ result = Pending
    /\ ser_stack = <<>>
    /\ fragment = NoFragment
    /\ text = <<>>
    /\ target = NoValue
    /\ path = <<>>
    /\ ret = NoRet
    /\ item = NoItem
    /\ derived = NoDerived
    /\ call = NoRet
    /\ lexed = NoLexed
    /\ conv = NoConv
    /\ value_stack = <<>>
    /\ value_fragment = NoFragment
    /\ current_val = NoValue

Next ==
    \/ EventLexError
    \/ EventScalar
    \/ EventStart
    \/ EventVisitorError
    \/ DelimComma
    \/ DelimClose
    \/ DelimFinishError
    \/ DelimMismatch
    \/ DelimMissing
    \/ DelimFirst
    \/ ElementSeq
    \/ ElementSeqError
    \/ ElementMap
    \/ ElementMapNoKey
    \/ ElementMapKeyLexError
    \/ ElementMapKeyError
    \/ ElementMapNoColon
    \/ TrailingGarbage
    \/ ReturnOk
    \/ to_string
    \/ SerScalar
    \/ SerOpen
    \/ SerOpenEmpty
    \/ SerNext
    \/ SerClose
    \/ SerReturn

Spec == Init /\ [][Next]_vars

\* The inputs of the fair specification: the well-formed documents, the
\* texts of structural tokens one piece shorter, and the objects whose key is
\* one piece of a string body.
LiveStructs == PieceTexts(StructPieces, MaxPieces - 1)

LiveKeys == {<<LBRACE>> \o Str(b) \o <<COLON, DIGIT1, RBRACE>> : b \in BodyPieces}

LiveCases ==
    DocCases
        \cup [input : LiveStructs, validate_utf8 : {FALSE}, cpu : {"scalar"},
              T : {"Value", "Any"}]
        \cup {c \in [input : LiveKeys, validate_utf8 : {FALSE, TRUE},
                      cpu : {"scalar"}, T : {"Value"}] :
                c.validate_utf8 \/ from_utf8(c.input)}

InitLive ==
    /\ Init
    /\ [input |-> input, validate_utf8 |-> validate_utf8, cpu |-> cpu,
        T |-> T] \in LiveCases

\* The driver and the writer are sequential code whose callbacks return: a
\* step that can be taken is taken.
SpecLive == InitLive /\ [][Next]_vars /\ WF_vars(Next)

\* ------------------------------------------- the Value API: its inputs

\* A caller holds a Value, parsed or built by hand (the variants of Value and
\* of Number are public), and may write it with to_string, read it with the
\* accessors and index into it.
MaxStr == 3
MaxChain == 2
MaxIndex == 1
MaxLevel == 1

ApiNumbers ==
    {NU64(n) : n \in {Zero, <<1>>, I64_MAX, TWO_63, U64_MAX}}
        \cup {NI64(I64(neg, m)) : neg \in {FALSE, TRUE},
                                   m \in {Zero, <<1>>, I64_MAX}}
        \cup {NI64(I64(TRUE, TWO_63))}
        \cup {NF64(f) : f \in {F64(FALSE, Zero, 0), F64(TRUE, Zero, 0),
                               F64(FALSE, <<1, 5>>, 0 - 1), F64(TRUE, <<1>>, 0),
                               F64(FALSE, <<1>>, 300), F64(FALSE, <<2, 5>>, 0 - 9),
                               NaN, Infinity(FALSE), Infinity(TRUE)}}

\* Strings: every ASCII byte alone, a character of each UTF-8 length, and
\* short texts that mix plain bytes, escaped bytes and a two-byte character.
ApiBytes == {<<b>> : b \in 0..127}
ApiChars == {<<195, 169>>, <<226, 130, 172>>, <<240, 159, 152, 128>>}
ApiPieces == {<<LOWER_A>>, <<QUOTE>>, <<1>>, <<LF>>, <<195, 169>>}
ApiStrings == ApiBytes \cup ApiChars \cup PieceTexts(ApiPieces, MaxStr)

ApiLeaves ==
    {VNull, VBool(TRUE), VNumber(NU64(<<1>>)), VNumber(NF64(NaN)),
     VString(<<LOWER_A>>)}

\* Arrays of up to two leaves and objects over the keys "a" and "b".
ApiFlat ==
    {VArray(a) : a \in UNION {[1..n -> ApiLeaves] : n \in 0..2}}
        \cup {VObject(<<>>)}
        \cup {VObject(<<[k |-> k, v |-> x]>>) :
                k \in {<<LOWER_A>>, <<LOWER_B>>}, x \in ApiLeaves}
        \cup {VObject(<<[k |-> <<LOWER_A>>, v |-> x], [k |-> <<LOWER_B>>, v |-> y]>>) :
                x \in ApiLeaves, y \in ApiLeaves}

\* A value wrapped n times in an array of one element or an object of one
\* member.
RECURSIVE ApiWrapped(_)
ApiWrapped(n) ==
    IF n = 0 THEN ApiFlat
    ELSE LET inner == ApiWrapped(n - 1) IN
         inner \cup {VArray(<<v>>) : v \in inner}
               \cup {VObject(<<[k |-> <<LOWER_A>>, v |-> v]>>) : v \in inner}

\* Composites side by side in a composite: an array or an object closes
\* and a sibling follows.
ApiSiblings ==
    LET a == VArray(<<VNull, VBool(TRUE)>>)
        o == VObject(<<[k |-> <<LOWER_A>>, v |-> VNull]>>)
        e == VArray(<<>>)
    IN  {VArray(<<a, o>>), VArray(<<e, a, VNull>>), VArray(<<o, VArray(<<a, e>>)>>),
         VObject(<<[k |-> <<LOWER_A>>, v |-> a], [k |-> <<LOWER_B>>, v |-> o]>>),
         VObject(<<[k |-> <<LOWER_A>>, v |-> VObject(<<>>)],
                   [k |-> <<LOWER_B>>, v |-> VArray(<<o, e>>)]>>)}

ApiValues ==
    {VNull, VBool(FALSE), VBool(TRUE)} \cup {VNumber(n) : n \in ApiNumbers}
        \cup {VString(s) : s \in ApiStrings} \cup ApiWrapped(MaxLevel)
        \cup ApiSiblings

\* ------------------------------------------ the Value API: its operations

\* value.as_u64() on the &Value the caller holds.
Value_as_u64 ==
    /\ pc = "done"
    /\ ret' = [fn |-> "as_u64", of |-> target, v |-> as_u64(target)]
    /\ UNCHANGED <<pc, target, path, deVars, caseVars, serVars, deriveVars, lexVars,
                   valueVars>>

\* value.as_i64()
Value_as_i64 ==
    /\ pc = "done"
    /\ ret' = [fn |-> "as_i64", of |-> target, v |-> as_i64(target)]
    /\ UNCHANGED <<pc, target, path, deVars, caseVars, serVars, deriveVars, lexVars,
                   valueVars>>

\* &value[i]
Value_index_usize ==
    /\ pc = "done"
    /\ Len(path) < MaxChain
    /\ \E i \in 0..MaxIndex :
        /\ target' = Index_usize(target, i)
        /\ path' = Append(path, [usize |-> TRUE, i |-> i, k |-> <<>>])
    /\ UNCHANGED <<pc, ret, deVars, caseVars, serVars, deriveVars, lexVars,
                   valueVars>>

\* &value[k]
Value_index_str ==
    /\ pc = "done"
    /\ Len(path) < MaxChain
    /\ \E k \in {<<LOWER_A>>, <<LOWER_B>>} :
        /\ target' = Index_str(target, k)
        /\ path' = Append(path, [usize |-> FALSE, i |-> 0, k |-> k])
    /\ UNCHANGED <<pc, ret, deVars, caseVars, serVars, deriveVars, lexVars,
                   valueVars>>

\* ------------------------------------------------ to_value (ser.rs 63-154)

\* The Value of a Fragment that is not a Seq or a Map.
ScalarValue(fr) ==
    IF fr.f = "Null" THEN VNull
    ELSE IF fr.f = "Bool" THEN VBool(fr.b)
    ELSE IF fr.f = "Str" THEN VString(fr.s)
    ELSE IF fr.f = "U64" THEN VNumber(NU64(fr.n))
    ELSE IF fr.f = "I64" THEN VNumber(NI64(fr.n))
    ELSE VNumber(NF64(fr.n))

\* arr.push(current_val) / obj.insert(key, current_val) on the layer.
Attach(top, val) ==
    IF top.kind = "Seq" THEN Append(top.acc, val)
    ELSE Object_insert(top.acc, top.key[1], val)

\* to_value(&value) on the &Value the caller holds.
to_value ==
    /\ pc = "done"
    /\ target # NoValue
    /\ value_stack' = <<>>
    /\ value_fragment' = begin(target)
    /\ current_val' = NoValue
    /\ pc' = "value_fragment"
    /\ UNCHANGED <<target, path, ret, deVars, caseVars, serVars, deriveVars, lexVars>>

ValueScalar ==
    /\ pc = "value_fragment"
    /\ value_fragment.f \notin {"Seq", "Map"}
    /\ current_val' = ScalarValue(value_fragment)
    /\ pc' = "value_attach"
    /\ UNCHANGED <<value_stack, value_fragment, target, path, ret, deVars, caseVars,
                   serVars, deriveVars, lexVars>>

\* A Seq or Map fragment with a first item: a layer with an empty Array or
\* Object (and the first key) is pushed, and the walk goes into the item.
ValueOpen ==
    /\ pc = "value_fragment"
    /\ value_fragment.f \in {"Seq", "Map"}
    /\ value_fragment.rest # <<>>
    /\ LET first == value_fragment.rest[1]
           seq == value_fragment.f = "Seq"
       IN
        /\ value_stack' = Append(value_stack,
                [kind |-> value_fragment.f, rest |-> Tail(value_fragment.rest),
                 acc |-> <<>>, key |-> IF seq THEN None ELSE Some(first.k)])
        /\ value_fragment' = begin(IF seq THEN first ELSE first.v)
    /\ UNCHANGED <<pc, current_val, target, path, ret, deVars, caseVars, serVars,
                   deriveVars, lexVars>>

\* A Seq or Map fragment that yields nothing.
ValueOpenEmpty ==
    /\ pc = "value_fragment"
    /\ value_fragment.f \in {"Seq", "Map"}
    /\ value_fragment.rest = <<>>
    /\ current_val' = IF value_fragment.f = "Seq" THEN VArray(<<>>)
                      ELSE VObject(<<>>)
    /\ pc' = "value_attach"
    /\ UNCHANGED <<value_stack, value_fragment, target, path, ret, deVars, caseVars,
                   serVars, deriveVars, lexVars>>

\* The completed value goes into the layer on top, which yields its next
\* item.
\* A loop that goes on to the next pair of a map without keeping its key.
ValueNext_NoKey ==
    /\ pc = "value_attach"
    /\ value_stack # <<>>
    /\ Last(value_stack).rest # <<>>
    /\ LET top == Last(value_stack)
           next == top.rest[1]
           seq == top.kind = "Seq"
       IN
        /\ value_stack' = [value_stack EXCEPT ![Len(value_stack)] =
                [kind |-> top.kind, rest |-> Tail(top.rest),
                 acc |-> Attach(top, current_val),
                 key |-> None]]
        /\ value_fragment' = begin(IF seq THEN next ELSE next.v)
    /\ pc' = "value_fragment"
    /\ UNCHANGED <<current_val, target, path, ret, deVars, caseVars, serVars,
                   deriveVars, lexVars>>

ValueNext ==
    /\ pc = "value_attach"
    /\ value_stack # <<>>
    /\ Last(value_stack).rest # <<>>
    /\ LET top == Last(value_stack)
           next == top.rest[1]
           seq == top.kind = "Seq"
       IN
        /\ value_stack' = [value_stack EXCEPT ![Len(value_stack)] =
                [kind |-> top.kind, rest |-> Tail(top.rest),
                 acc |-> Attach(top, current_val),
                 key |-> IF seq THEN None ELSE Some(next.k)]]
        /\ value_fragment' = begin(IF seq THEN next ELSE next.v)
    /\ pc' = "value_fragment"
    /\ UNCHANGED <<current_val, target, path, ret, deVars, caseVars, serVars,
                   deriveVars, lexVars>>

\* The layer is popped as it is: the value completed last is not put in.
ValueClose_Lost ==
    /\ pc = "value_attach"
    /\ value_stack # <<>>
    /\ Last(value_stack).rest = <<>>
    /\ LET top == Last(value_stack) IN
        current_val' = IF top.kind = "Seq" THEN VArray(top.acc)
                       ELSE VObject(top.acc)
    /\ value_stack' = Front(value_stack)
    /\ UNCHANGED <<pc, value_fragment, target, path, ret, deVars, caseVars, serVars,
                   deriveVars, lexVars>>

\* The completed value goes into the layer on top, which is exhausted: the
\* layer is popped and its Array or Object is the value completed now.
ValueClose ==
    /\ pc = "value_attach"
    /\ value_stack # <<>>
    /\ Last(value_stack).rest = <<>>
    /\ LET top == Last(value_stack) IN
        current_val' = IF top.kind = "Seq" THEN VArray(Attach(top, current_val))
                       ELSE VObject(Attach(top, current_val))
    /\ value_stack' = Front(value_stack)
    /\ UNCHANGED <<pc, value_fragment, target, path, ret, deVars, caseVars, serVars,
                   deriveVars, lexVars>>

\* No layer is left: to_value returns the value completed last.
ValueReturn ==
    /\ pc = "value_attach"
    /\ value_stack = <<>>
    /\ ret' = [fn |-> "to_value", of |-> target, v |-> current_val]
    /\ pc' = "valued"
    /\ UNCHANGED <<valueVars, target, path, deVars, caseVars, serVars, deriveVars,
                   lexVars>>

InitValue ==
    /\ \E v \in ApiValues :
        /\ result = ResOk(v)
        /\ target = v
    /\ path = <<>>
    /\ ret = NoRet
    /\ item = NoItem
    /\ derived = NoDerived
    /\ call = NoRet
    /\ lexed = NoLexed
    /\ conv = NoConv
    /\ value_stack = <<>>
    /\ value_fragment = NoFragment
    /\ current_val = NoValue
    /\ input = <<>>
    /\ validate_utf8 = FALSE
    /\ cpu = "scalar"
    /\ T = "Value"
    /\ pos = 0
    /\ buffer = <<>>
    /\ stack = <<>>
    /\ visitor = RootVisitor
    /\ layer = NoLayer
    /\ accept_comma = FALSE
    /\ pc = "done"
    /\ out = None
    /\ handles = <<>>
    /\ trace = <<>>
    /\ ser_stack = <<>>
    /\ fragment = NoFragment
    /\ text = <<>>

NextValue ==
    \/ to_string
    \/ SerScalar
    \/ SerOpen
    \/ SerOpenEmpty
    \/ SerNext
    \/ SerClose
    \/ SerReturn
    \/ Value_as_u64
    \/ Value_as_i64
    \/ Value_index_usize
    \/ Value_index_str
    \/ to_value
    \/ ValueScalar
    \/ ValueOpen
    \/ ValueOpenEmpty
    \/ ValueNext
    \/ ValueClose
    \/ ValueReturn

SpecValue == InitValue /\ [][NextValue]_vars

\* ------------------------------------------------- the same key twice

\* A value of a caller's type whose Serialize::begin gives a Fragment::Map
\* that yields the pairs o in their order, the same key more than once.
Pairs(o) == [t |-> "Pairs", o |-> o]

ApiPairs ==
    LET a == <<LOWER_A>>
        b == <<LOWER_B>>
        one == VNumber(NU64(<<1>>))
    IN  {Pairs(<<[k |-> a, v |-> VNull]>>),
         Pairs(<<[k |-> a, v |-> VNull], [k |-> a, v |-> VBool(TRUE)]>>),
         Pairs(<<[k |-> a, v |-> one], [k |-> a, v |-> one]>>),
         Pairs(<<[k |-> b, v |-> one], [k |-> a, v |-> VNull],
                 [k |-> b, v |-> VArray(<<VNull>>)]>>),
         Pairs(<<[k |-> a, v |-> VString(b)], [k |-> b, v |-> VNull],
                 [k |-> a, v |-> VObject(<<[k |-> a, v |-> one]>>)],
                 [k |-> a, v |-> VArray(<<>>)]>>)}

\* The caller holds such a value and hands it to to_string or to_value.
InitPairs ==
    /\ \E v \in ApiPairs :
        /\ result = ResOk(v)
        /\ target = v
    /\ path = <<>>
    /\ ret = NoRet
    /\ item = NoItem
    /\ derived = NoDerived
    /\ call = NoRet
    /\ lexed = NoLexed
    /\ conv = NoConv
    /\ value_stack = <<>>
    /\ value_fragment = NoFragment
    /\ current_val = NoValue
    /\ input = <<>>
    /\ validate_utf8 = FALSE
    /\ cpu = "scalar"
    /\ T = "Value"
    /\ pos = 0
    /\ buffer = <<>>
    /\ stack = <<>>
    /\ visitor = RootVisitor
    /\ layer = NoLayer
    /\ accept_comma = FALSE
    /\ pc = "done"
    /\ out = None
    /\ handles = <<>>
    /\ trace = <<>>
    /\ ser_stack = <<>>
    /\ fragment = NoFragment
    /\ text = <<>>

\* A text is parsed, or a value that yields pairs is written or converted.
InitDup == InitLive \/ InitPairs

NextDup ==
    \/ EventLexError
    \/ EventScalar
    \/ EventStart
    \/ EventVisitorError
    \/ DelimComma
    \/ DelimClose
    \/ DelimFinishError
    \/ DelimMismatch
    \/ DelimMissing
    \/ DelimFirst
    \/ ElementSeq
    \/ ElementSeqError
    \/ ElementMap
    \/ ElementMapNoKey
    \/ ElementMapKeyLexError
    \/ ElementMapKeyError
    \/ ElementMapNoColon
    \/ TrailingGarbage
    \/ ReturnOk
    \/ to_string
    \/ SerScalar
    \/ SerOpen
    \/ SerOpenEmpty
    \/ SerNext
    \/ SerClose
    \/ SerReturn
    \/ to_value
    \/ ValueScalar
    \/ ValueOpen
    \/ ValueOpenEmpty
    \/ ValueNext
    \/ ValueClose
    \/ ValueReturn

SpecDup == InitDup /\ [][NextDup]_vars

\* ------------------------------------------------- derived impls: inputs

\* Identifiers and string literals, as their bytes.
ID_A == <<65>>
ID_B == <<66>>
ID_RAW_ENUM == <<114, 35, 101, 110, 117, 109>>
ID_X == <<120>>
ID_RAW_STRUCT == <<114, 35, 115, 116, 114, 117, 99, 116>>
LIT_RENAMED_B == <<114, 101, 110, 97, 109, 101, 100, 66>>
LIT_RAW_X == <<114, 35, 120>>
LIT_Z == <<122>>
KEY_UNKNOWN == <<122, 122>>

SerdeRename(s) == Attr("serde", <<Meta("rename", Some(s))>>)
SerdeDefault == Attr("serde", <<Meta("default", None)>>)
SerdeDefaultPath(p) == Attr("serde", <<Meta("default", Some(p))>>)
SerdeSkipIf(p) == Attr("serde", <<Meta("skip_serializing_if", Some(p))>>)
AllowAttr == Attr("allow", <<Meta("non_camel_case_types", None)>>)

\* What may stand on a variant: nothing, a rename, a rename whose value
\* itself begins with r#, an attribute that is not serde's, and two things
\* the macro rejects: a second rename and an attribute it does not know.
VariantAttrs ==
    {<<>>, <<SerdeRename(LIT_RENAMED_B)>>, <<SerdeRename(LIT_RAW_X)>>,
     <<AllowAttr>>, <<AllowAttr, SerdeRename(LIT_Z)>>,
     <<SerdeRename(LIT_Z), SerdeRename(LIT_Z)>>, <<SerdeDefault>>}
Variants == [ident : {ID_A, ID_B, ID_RAW_ENUM}, attrs : VariantAttrs]

MaxVariants == 3
Injective(f, key(_)) ==
    \A a, b \in DOMAIN f : a # b => key(f[a]) # key(f[b])
IdentOf(x) == x.ident
JsonNameOfVariant(v) == name_of_variant(v)

\* Enums: variants with distinct identifiers and, where the macro accepts
\* them, distinct JSON names (the sources do not show what the generated
\* code makes of two variants with one name).
EnumItems ==
    {[kind |-> "enum", attrs |-> <<>>, variants |-> vs] :
        vs \in {f \in UNION {[1..n -> Variants] : n \in 1..MaxVariants} :
                  /\ Injective(f, IdentOf)
                  /\ (\A k \in DOMAIN f : name_of_variant(f[k]).ok)
                        => Injective(f, JsonNameOfVariant)}}

\* Structs with attributes on their fields: every type with every
\* attribute, two fields.
FieldTypes == {"String", "u32", "Option<String>"}
PATH_CUSTOM == <<99>>
PATH_IS_NONE == <<110>>
FieldAttrSets ==
    {<<>>, <<SerdeDefault>>, <<SerdeDefaultPath(PATH_CUSTOM)>>,
     <<SerdeRename(LIT_Z)>>, <<SerdeSkipIf(PATH_IS_NONE)>>,
     <<SerdeDefault, SerdeDefault>>}
FieldStructs ==
    {[kind |-> "struct", attrs |-> <<>>,
      fields |-> <<[ident |-> ID_X, ty |-> t1, attrs |-> a1],
                   [ident |-> ID_RAW_STRUCT, ty |-> t2, attrs |-> a2]>>] :
        t1 \in FieldTypes, t2 \in FieldTypes,
        a1 \in FieldAttrSets, a2 \in FieldAttrSets \ {<<SerdeRename(LIT_Z)>>}}

\* Structs with a default on the container and plain fields.
PATH_CREATE == <<100>>
ContainerStructs ==
    {[kind |-> "struct", attrs |-> a,
      fields |-> <<[ident |-> ID_X, ty |-> "String", attrs |-> <<>>],
                   [ident |-> ID_RAW_STRUCT, ty |-> "u32", attrs |-> <<>>]>>] :
        a \in {<<SerdeDefault>>, <<SerdeDefaultPath(PATH_CREATE)>>,
               <<AllowAttr, Attr("serde", <<Meta("rename_all", Some(LIT_Z))>>),
                 SerdeDefault>>,
               <<SerdeDefault, SerdeDefault>>}}

Items == EnumItems \cup FieldStructs \cup ContainerStructs

\* ------------------------------------- derived impls: the generated code

\* Values of the derived types and of their fields.
RString(s) == [r |-> "String", s |-> s]
RU32(n) == [r |-> "u32", n |-> n]
RNone == [r |-> "None"]
RSome(v) == [r |-> "Some", v |-> v]
RCall(p) == [r |-> "call", path |-> p]
RFieldOf(v, ident) == [r |-> "field", of |-> v, ident |-> ident]
RVariant(k) == [r |-> "variant", k |-> k]
RStruct(fs) == [r |-> "struct", fields |-> fs]
DEFAULT_DEFAULT == <<68>>

DeriveErr(kind) == [ok |-> FALSE, kind |-> kind]

\* #[derive(Serialize, Deserialize)]: the names and the defaults the
\* generated impls work with, or a compile error.
derive(it) ==
    IF it.kind = "enum" THEN
        LET names == [k \in 1..Len(it.variants) |-> name_of_variant(it.variants[k])]
        IN  IF \E k \in 1..Len(names) : ~names[k].ok THEN DeriveErr("enum")
            ELSE [ok |-> TRUE, kind |-> "enum",
                  names |-> [k \in 1..Len(names) |-> names[k].v]]
    ELSE
        LET c == get_container(it)
            attrs == [k \in 1..Len(it.fields) |-> get(it.fields[k])]
            names == [k \in 1..Len(it.fields) |-> name_of_field(it.fields[k])]
        IN  IF ~c.ok \/ \E k \in 1..Len(attrs) : ~attrs[k].ok \/ ~names[k].ok
            THEN DeriveErr("struct")
            ELSE [ok |-> TRUE, kind |-> "struct", default |-> c.v.default,
                  fields |-> [k \in 1..Len(attrs) |->
                      [ident |-> it.fields[k].ident, ty |-> it.fields[k].ty,
                       name |-> names[k].v, default |-> attrs[k].v.default,
                       skip_serializing_if |-> attrs[k].v.skip_serializing_if]]]

\* from_str of a document that is one scalar: its event, or an error (the
\* lexer's, or bytes after the value that are no whitespace).
from_str_scalar(j) ==
    LET r == event(j, FALSE, "scalar", 0, <<>>) IN
    IF ~r.ok THEN AttrErr
    ELSE IF r.ev.e \in {"SeqStart", "MapStart"} THEN AttrErr
    ELSE IF skip_whitespace(j, r.pos) # Len(j) THEN AttrErr
    ELSE AttrOk(r.ev)

\* The generated Serialize of an enum: the variant's name as a Str fragment.
Enum_begin(d, x) == [f |-> "Str", s |-> d.names[x.k]]

\* The generated Deserialize of an enum: the Visitor takes a string that is
\* the name of a variant and nothing else.
Enum_from_str(d, j) ==
    LET r == from_str_scalar(j) IN
    IF ~r.ok \/ r.v.e # "Str" THEN AttrErr
    ELSE IF \E k \in 1..Len(d.names) : d.names[k] = r.v.s
        THEN AttrOk(RVariant(CHOOSE k \in 1..Len(d.names) : d.names[k] = r.v.s))
    ELSE AttrErr

\* Default::default() of a field type.
Default_default(ty) ==
    IF ty = "String" THEN RString(<<>>)
    ELSE IF ty = "u32" THEN RU32(Zero)
    ELSE RNone

\* Deserialize::default() of a field type: what a field is when the object
\* has no member for it and no default attribute applies.  Only an Option
\* has one (test_de: Nested.z).
Deserialize_default(ty) == IF ty = "Option<String>" THEN Some(RNone) ELSE None

\* The place of a field takes the value of its member.
RECURSIVE Field_parse(_, _)
Field_parse(ty, v) ==
    IF ty = "String" THEN
        IF v.t = "String" THEN AttrOk(RString(v.s)) ELSE AttrErr
    ELSE IF ty = "u32" THEN
        IF v.t = "Number" /\ v.n.k = "U64" /\ Len(v.n.v) < 10
        THEN AttrOk(RU32(v.n.v)) ELSE AttrErr
    ELSE IF v.t = "Null" THEN AttrOk(RNone)
    ELSE LET inner == Field_parse("String", v) IN
         IF inner.ok THEN AttrOk(RSome(inner.v)) ELSE AttrErr

\* A field whose member is absent when the object is finished, taken with
\* no regard for the default of the container.
Field_absent_own(d, k) ==
    LET f == d.fields[k] IN
    IF f.default.d = "Default" THEN AttrOk(Default_default(f.ty))
    ELSE IF f.default.d = "Path" THEN AttrOk(RCall(f.default.path))
    ELSE IF Deserialize_default(f.ty) # None
        THEN AttrOk(Deserialize_default(f.ty)[1])
    ELSE AttrErr

\* A field whose member is absent when the object is finished.
Field_absent(d, k) ==
    LET f == d.fields[k] IN
    IF f.default.d = "Default" THEN AttrOk(Default_default(f.ty))
    ELSE IF f.default.d = "Path" THEN AttrOk(RCall(f.default.path))
    ELSE IF d.default.d = "Default"
        THEN AttrOk(RFieldOf(RCall(DEFAULT_DEFAULT), f.ident))
    ELSE IF d.default.d = "Path"
        THEN AttrOk(RFieldOf(RCall(d.default.path), f.ident))
    ELSE IF Deserialize_default(f.ty) # None
        THEN AttrOk(Deserialize_default(f.ty)[1])
    ELSE AttrErr

\* The generated Deserialize of a struct, on the members of a JSON object:
\* key() hands out the place of the field with that name and ignores any
\* other key; finish() fills in the absent fields or fails.
Struct_from_members(d, members) ==
    LET slot == [k \in 1..Len(d.fields) |->
                    IF \E m \in 1..Len(members) : members[m].k = d.fields[k].name
                    THEN Field_parse(d.fields[k].ty,
                            members[CHOOSE m \in 1..Len(members) :
                                        members[m].k = d.fields[k].name].v)
                    ELSE Field_absent(d, k)]
    IN  IF \E k \in 1..Len(slot) : ~slot[k].ok THEN AttrErr
        ELSE AttrOk(RStruct([k \in 1..Len(slot) |-> slot[k].v]))

\* The generated Serialize of a struct: the names of the members it writes,
\* in the order of the fields; a field with skip_serializing_if is left out
\* when its predicate says so (skipped: those fields).
Struct_member_names(d, skipped) ==
    LET keep == {k \in 1..Len(d.fields) :
                    ~(d.fields[k].skip_serializing_if # None /\ k \in skipped)}
        F[k \in 0..Len(d.fields)] ==
            IF k = 0 THEN <<>>
            ELSE IF k \in keep THEN Append(F[k - 1], d.fields[k].name)
            ELSE F[k - 1]
    IN  F[Len(d.fields)]

\* The objects handed to a derived struct: each of its names and a key it
\* does not have, absent or with a string, a number or null.
MemberValues == {VString(<<LOWER_A>>), VNumber(NU64(<<1>>)), VNull}
RECURSIVE MembersOver(_)
MembersOver(keys) ==
    IF keys = <<>> THEN {<<>>}
    ELSE LET rest == MembersOver(Tail(keys)) IN
         rest \cup {<<[k |-> keys[1], v |-> v]>> \o r : v \in MemberValues, r \in rest}

\* The texts handed to a derived enum: each name as a JSON string, with
\* whitespace around it, and texts that are no variant.
EnumTexts(d) ==
    {Str(d.names[k]) : k \in 1..Len(d.names)}
        \cup {<<SPACE>> \o Str(d.names[1]) \o <<LF>>, Str(d.names[1]) \o <<DIGIT1>>,
              Str(KEY_UNKNOWN), Str(ID_RAW_ENUM), <<DIGIT1>>, NULL_TEXT, <<>>}

\* ------------------------------------------ derived impls: the operations

\* The macro expands on the item.
Derive ==
    /\ pc = "item"
    /\ derived' = derive(item)
    /\ pc' = "derived"
    /\ UNCHANGED <<item, call, target, path, ret, deVars, caseVars, serVars,
                   lexVars, valueVars>>

\* json::to_string(&x) for a variant x of a derived enum: the writer's
\* scalar arm on the fragment of x.
Enum_to_string ==
    /\ pc = "derived"
    /\ derived.ok /\ derived.kind = "enum"
    /\ \E k \in 1..Len(derived.names) :
        call' = [fn |-> "to_string", arg |-> RVariant(k),
                 ret |-> ScalarText(Enum_begin(derived, RVariant(k))),
                 after |-> NoRet]
    /\ UNCHANGED <<pc, item, derived, target, path, ret, deVars, caseVars, serVars,
                   lexVars, valueVars>>

\* json::from_str::<E>(j) for a derived enum E, on a text of the family or on
\* what to_string has just returned.
Enum_from_str_call ==
    /\ pc = "derived"
    /\ derived.ok /\ derived.kind = "enum"
    /\ \E j \in EnumTexts(derived)
              \cup (IF call.fn = "to_string" THEN {call.ret} ELSE {}) :
        call' = [fn |-> "from_str", arg |-> j, ret |-> Enum_from_str(derived, j),
                 after |-> IF call.fn = "to_string" /\ call.ret = j
                           THEN [fn |-> call.fn, arg |-> call.arg, ret |-> call.ret]
                           ELSE NoRet]
    /\ UNCHANGED <<pc, item, derived, target, path, ret, deVars, caseVars, serVars,
                   lexVars, valueVars>>

\* json::to_string(&s) for a derived struct: the member names written.
Struct_to_string ==
    /\ pc = "derived"
    /\ derived.ok /\ derived.kind = "struct"
    /\ \E skipped \in SUBSET (1..Len(derived.fields)) :
        call' = [fn |-> "to_string", arg |-> skipped,
                 ret |-> Struct_member_names(derived, skipped), after |-> NoRet]
    /\ UNCHANGED <<pc, item, derived, target, path, ret, deVars, caseVars, serVars,
                   lexVars, valueVars>>

\* json::from_str::<S>(j) for a derived struct S, j an object with the given
\* members.
Struct_from_str ==
    /\ pc = "derived"
    /\ derived.ok /\ derived.kind = "struct"
    /\ \E members \in MembersOver(
            [k \in 1..Len(derived.fields) |-> derived.fields[k].name]
                \o <<KEY_UNKNOWN>>) :
        call' = [fn |-> "from_str", arg |-> members,
                 ret |-> Struct_from_members(derived, members), after |-> NoRet]
    /\ UNCHANGED <<pc, item, derived, target, path, ret, deVars, caseVars, serVars,
                   lexVars, valueVars>>

InitDerive ==
    /\ item \in Items
    /\ derived = NoDerived
    /\ call = NoRet
    /\ lexed = NoLexed
    /\ conv = NoConv
    /\ value_stack = <<>>
    /\ value_fragment = NoFragment
    /\ current_val = NoValue
    /\ target = NoValue
    /\ path = <<>>
    /\ ret = NoRet
    /\ input = <<>>
    /\ validate_utf8 = FALSE
    /\ cpu = "scalar"
    /\ T = "Derived"
    /\ pos = 0
    /\ buffer = <<>>
    /\ stack = <<>>
    /\ visitor = RootVisitor
    /\ layer = NoLayer
    /\ accept_comma = FALSE
    /\ pc = "item"
    /\ out = None
    /\ handles = <<>>
    /\ trace = <<>>
    /\ result = Pending
    /\ ser_stack = <<>>
    /\ fragment = NoFragment
    /\ text = <<>>

NextDerive ==
    \/ Derive
    \/ Enum_to_string
    \/ Enum_from_str_call
    \/ Struct_to_string
    \/ Struct_from_str

SpecDerive == InitDerive /\ [][NextDerive]_vars


\* ------------------------------------------------- the lexer on its own

\* Number texts: every text of at most MaxNum bytes over the bytes a number
\* is made of, so that every way of breaking off a number (no digit after
\* '-', after '.', after 'e', a digit after a leading 0) occurs, and every
\* complete number followed by a byte that is not part of it.
MaxNum == 5

NumberBytes == {MINUS, PLUS, DIGIT0, DIGIT1, DOT, LOWER_E}

NumberTexts == PieceTexts({<<b>> : b \in NumberBytes}, MaxNum)

\* Numbers with an exponent at the edges: of the table POW10 (308), of the
\* smallest subnormal f64 (about 5e-324), of i32 (2147483647) and beyond it,
\* each with a significand that is zero, small, or u64::MAX, of either sign.
EdgeSignificands ==
    {<<DIGIT0>>, <<DIGIT1>>, <<DIGIT0, DOT, DIGIT0>>, <<DIGIT1, DOT, DIGIT9>>,
     itoa_u64(U64_MAX)}

EdgeExponents ==
    {<<3,0,8>>, <<3,0,9>>, <<3,2,0>>, <<3,4,5>>, <<9,9,9>>,
     <<2,1,4,7,4,8,3,6,4,7>>, <<2,1,4,7,4,8,3,6,4,8>>,
     <<9,9,9,9,9,9,9,9,9,9,9>>}

ExponentTexts ==
    {sign \o sig \o <<LOWER_E>> \o esign \o itoa_u64(e) \o tail :
        sign \in {<<>>, <<MINUS>>}, sig \in EdgeSignificands,
        esign \in {<<>>, <<PLUS>>, <<MINUS>>}, e \in EdgeExponents,
        tail \in {<<>>, <<COMMA>>}}

\* Integers of either sign around 2^63 and u64::MAX, alone or followed by
\* a byte that ends them.
SignedHeads ==
    IntegerHeads \cup {Zero, I64_MAX, Mul10Add(Div10(TWO_63), 9)}

SignedTexts ==
    {sign \o itoa_u64(h) \o tail :
        sign \in {<<>>, <<MINUS>>}, h \in SignedHeads,
        tail \in {<<>>, <<COMMA>>}}

\* Fractions on an integer part that is short or within two digits of
\* u64::MAX: every fraction of at most MaxFrac digits out of 0, 1, 5, 6, so
\* that the overflow of the significand happens at the first, the second,
\* the third digit or not at all, with more digits after it.
MaxFrac == 3

FractionHeads ==
    {Zero, <<1>>, Div10(Div10(U64_MAX)), Div10(U64_MAX), U64_MAX}

FractionDigits == {DIGIT0, DIGIT1, DIGIT0 + 5, DIGIT0 + 6}

FractionTexts ==
    {sign \o itoa_u64(h) \o <<DOT>> \o f \o tail :
        sign \in {<<>>, <<MINUS>>}, h \in FractionHeads,
        f \in PieceTexts({<<b>> : b \in FractionDigits}, MaxFrac),
        tail \in {<<>>, <<COMMA>>}}

\* Strings with one escape: a backslash followed by each ASCII byte
\* or by nothing, with and without a byte in front, a byte behind and the
\* closing quote.
EscapedTexts ==
    {<<QUOTE>> \o pre \o <<BACKSLASH>> \o x \o post \o close :
        pre \in {<<>>, <<LOWER_A>>},
        x \in {<<>>} \cup {<<b>> : b \in 0..127},
        post \in {<<>>, <<LOWER_X>>},
        close \in {<<>>, <<QUOTE>>}}

\* Strings with a \u escape followed by at most MaxHex bytes out of two
\* digits, a hexadecimal letter, a letter that is none, and the quote: the
\* text ends, or a byte that is no hexadecimal digit comes, after 0 to 4
\* digits.
MaxHex == 5

HexBytes == {DIGIT0, DIGIT0 + 4, UPPER_E, LOWER_X, QUOTE}

HexTexts ==
    {<<QUOTE, BACKSLASH, LOWER_U>> \o h :
        h \in PieceTexts({<<b>> : b \in HexBytes}, MaxHex)}

\* At most MaxLits string literals one after the other, a blank between
\* them: empty, plain, with an escape only, with an escape among plain
\* bytes, so that a string with escapes comes before and after one without.
MaxLits == 3

Literals ==
    {Str(<<>>), Str(<<LOWER_A>>), Str(<<LOWER_X, LOWER_X>>),
     Str(<<BACKSLASH, LOWER_N>>), Str(<<BACKSLASH, BACKSLASH>>),
     Str(<<LOWER_A, BACKSLASH, LOWER_T, LOWER_X>>)}

ReuseTexts == PieceTexts({l \o <<SPACE>> : l \in Literals}, MaxLits)

\* Numbers and identifiers cut short, with nothing behind them, with a NUL
\* byte, and with a NUL byte and more.
MaxCut == 3

CutHeads ==
    PieceTexts({<<b>> : b \in NumberBytes}, MaxCut)
        \cup UNION {{SubSeq(w, 1, k) : k \in 1..Len(w)} :
                     w \in {NULL_TEXT, TRUE_TEXT, FALSE_TEXT}}

NulTexts ==
    {h \o t : h \in CutHeads, t \in {<<>>, <<NUL>>, <<NUL, DIGIT1>>}}

\* Strings with one raw byte, each ASCII byte in turn: alone, behind a
\* plain byte or an escaped quote, in front of nothing, a plain byte, an
\* escape or a second string, with and without the closing quote.
RawTexts ==
    {<<QUOTE>> \o pre \o <<b>> \o post \o close :
        pre \in {<<>>, <<LOWER_A>>, <<BACKSLASH, QUOTE>>},
        b \in 0..127,
        post \in {<<>>, <<LOWER_X>>, <<BACKSLASH, LOWER_N>>},
        close \in {<<>>, <<QUOTE>>, <<QUOTE, QUOTE, LOWER_X, QUOTE>>}}

LexTexts ==
    NumberTexts \cup ExponentTexts \cup SignedTexts \cup FractionTexts
        \cup EscapedTexts \cup HexTexts \cup ReuseTexts \cup NulTexts
        \cup RawTexts

\* Calls of f64_from_parts: a significand that is zero, small, at the
\* edge of what times 1e308 is finite, or u64::MAX, and an exponent at the
\* edges of i32, of the table POW10 and of the least positive f64, once and
\* twice 308 below.
I32_MIN == (0 - I32_MAX) - 1

PartsSignificands == {Zero, <<1>>, <<9>>, <<1,7>>, <<1,8>>, U64_MAX}

PartsEdges == {0, 288, 289, 290, 307, 308, 309, 310, 323, 324, 343, 344}

PartsExponents ==
    PartsEdges \cup {0 - e : e \in PartsEdges}
        \cup {0 - (e + 308) : e \in PartsEdges}
        \cup {I32_MIN, I32_MIN + 1, I32_MAX - 1, I32_MAX}

PartsCalls ==
    [fn : {"f64_from_parts"}, nonnegative : BOOLEAN,
     significand : PartsSignificands, exponent : PartsExponents,
     r : {None}]

InitLex ==
    /\ \/ input \in LexTexts /\ pc = "lex" /\ conv = NoConv
       \/ input = <<>> /\ pc = "parts" /\ conv \in PartsCalls
    /\ value_stack = <<>>
    /\ value_fragment = NoFragment
    /\ current_val = NoValue
    /\ validate_utf8 = FALSE
    /\ cpu = "scalar"
    /\ T = "Value"
    /\ pos = 0
    /\ buffer = <<>>
    /\ stack = <<>>
    /\ visitor = RootVisitor
    /\ layer = NoLayer
    /\ accept_comma = FALSE
    /\ out = None
    /\ handles = <<>>
    /\ trace = <<>>
    /\ result = Pending
    /\ ser_stack = <<>>
    /\ fragment = NoFragment
    /\ text = <<>>
    /\ target = NoValue
    /\ path = <<>>
    /\ ret = NoRet
    /\ item = NoItem
    /\ derived = NoDerived
    /\ call = NoRet
    /\ lexed = NoLexed

\* de.event(), on a fresh Deserializer or after an event that it returned:
\* the position and the scratch buffer are left as the lexer leaves them,
\* on success and on failure.
Lex_event ==
    /\ \/ pc = "lex"
       \/ pc = "lexed" /\ lexed.ok /\ pos < Len(input)
    /\ \E r \in {event(input, validate_utf8, cpu, pos, buffer)} :
        /\ lexed' = Lexed(r, pos)
        /\ pos' = r.pos
        /\ buffer' = r.buf
    /\ pc' = "lexed"
    /\ UNCHANGED <<stack, visitor, layer, accept_comma, out, handles, trace, result,
                   serVars, caseVars, target, path, ret, deriveVars, conv,
                   valueVars>>

\* f64_from_parts(nonnegative, significand, exponent) on its own.
F64_from_parts ==
    /\ pc = "parts"
    /\ conv' = [conv EXCEPT !.r = Some(f64_from_parts(conv.nonnegative,
                                        conv.significand, conv.exponent))]
    /\ pc' = "converted"
    /\ UNCHANGED <<deVars, serVars, caseVars, target, path, ret, deriveVars, lexed,
                   valueVars>>

NextLex ==
    \/ Lex_event
    \/ F64_from_parts

SpecLex == InitLex /\ [][NextLex]_vars


\* =========================================================================
\* The JSON grammar (RFC 8259), as a recogniser independent of the lexer: the
\* texts the claims call well formed.  A mode m says what is admitted:
\*   m.ws     insignificant whitespace between tokens;
\*   m.nums   FALSE: any number of the grammar; TRUE: only a number spelled as
\*            the writer spells it (an integer of the u64 / i64 range other
\*            than -0, or a plain decimal fraction of at most 15 digits
\*            laid out as ryu lays it out);
\*   m.canon  FALSE: any string of the grammar, any keys; TRUE: only strings
\*            spelled as escape_str spells them, and the keys of an object
\*            distinct and in ascending byte order.
\* =========================================================================

NoMatch == 0 - 1

At(s, p) == IF 0 <= p /\ p < Len(s) THEN s[p + 1] ELSE NoByte

IsWs(b) == b \in {SPACE, TAB, LF, CR}

RECURSIVE G_ws(_, _)
G_ws(s, p) == IF IsWs(At(s, p)) THEN G_ws(s, p + 1) ELSE p

G_skip(s, p, m) == IF m.ws THEN G_ws(s, p) ELSE p

G_digits(s, p) ==
    IF p < 0 \/ p > Len(s) THEN p
    ELSE CHOOSE n \in p..Len(s) :
            /\ \A i \in (p + 1)..n : IsDigit(s[i])
            /\ n < Len(s) => ~IsDigit(s[n + 1])

RECURSIVE LeadingZeros(_)
LeadingZeros(d) ==
    IF d # <<>> /\ d[1] = DIGIT0 THEN 1 + LeadingZeros(Tail(d)) ELSE 0

DigitsOf(lit) == [i \in 1..Len(lit) |-> lit[i] - DIGIT0]

\* An integer literal as itoa prints a u64 or a negative i64.
CanonicalInteger(neg, int) ==
    IF neg THEN int # <<DIGIT0>> /\ NumLeq(DigitsOf(int), TWO_63)
    ELSE NumLeq(DigitsOf(int), U64_MAX)

\* int.frac as ryu prints a double of few digits: no exponent, no trailing
\* zero but in ".0", no more than four zeros after "0.".  Up to 15 decimal
\* digits convert to an f64 and back exactly.
CanonicalFraction(int, frac) ==
    /\ Len(int) + Len(frac) <= 15
    /\ frac = <<DIGIT0>> \/ Last(frac) # DIGIT0
    /\ int = <<DIGIT0>> /\ frac # <<DIGIT0>> => LeadingZeros(frac) <= 4

\* number = [ minus ] int [ frac ] [ exp ]
G_number(s, p, m) ==
    LET neg  == At(s, p) = MINUS
        i0   == IF neg THEN p + 1 ELSE p
        i1   == IF At(s, i0) = DIGIT0 THEN i0 + 1
                ELSE IF IsDigit(At(s, i0)) THEN G_digits(s, i0)
                ELSE NoMatch
        dot  == i1 # NoMatch /\ At(s, i1) = DOT
        f1   == IF ~dot THEN i1
                ELSE IF G_digits(s, i1 + 1) > i1 + 1 THEN G_digits(s, i1 + 1)
                ELSE NoMatch
        ex   == f1 # NoMatch /\ At(s, f1) \in {LOWER_E, UPPER_E}
        e0   == IF At(s, f1 + 1) \in {PLUS, MINUS} THEN f1 + 2 ELSE f1 + 1
        e1   == IF ~ex THEN f1
                ELSE IF G_digits(s, e0) > e0 THEN G_digits(s, e0)
                ELSE NoMatch
    IN
    IF e1 = NoMatch \/ ~m.nums THEN e1
    ELSE IF ex THEN NoMatch
    ELSE IF dot THEN
        IF CanonicalFraction(SubSeq(s, i0 + 1, i1), SubSeq(s, i1 + 2, f1))
        THEN e1 ELSE NoMatch
    ELSE IF CanonicalInteger(neg, SubSeq(s, i0 + 1, i1)) THEN e1
    ELSE NoMatch

IsHexDigit(b) ==
    \/ IsDigit(b)
    \/ LOWER_A <= b /\ b <= LOWER_F
    \/ UPPER_A <= b /\ b <= UPPER_F

G_hex(b) == IF IsDigit(b) THEN b - DIGIT0 ELSE b - LOWER_A + 10

\* The four hex digits of \u00XX as escape_str writes them: lower case, a
\* control character that has no two-character escape.
CanonicalU(h) ==
    /\ h[1] = DIGIT0 /\ h[2] = DIGIT0
    /\ h[3] \in {DIGIT0, DIGIT1}
    /\ IsDigit(h[4]) \/ (LOWER_A <= h[4] /\ h[4] <= LOWER_F)
    /\ 16 * G_hex(h[3]) + G_hex(h[4]) \notin {BS_CTL, TAB, LF, FF_CTL, CR}

\* string = quotation-mark *char quotation-mark, from just past the opening
\* quote to just past the closing one.
RECURSIVE G_chars(_, _, _)
G_chars(s, p, m) ==
    LET b == At(s, p)
        e == At(s, p + 1)
    IN
    IF b = NoByte THEN NoMatch
    ELSE IF b = QUOTE THEN p + 1
    ELSE IF b < SPACE THEN NoMatch
    ELSE IF b # BACKSLASH THEN G_chars(s, p + 1, m)
    ELSE IF e \in {QUOTE, BACKSLASH, LOWER_B, LOWER_F, LOWER_N, LOWER_R, LOWER_T}
        THEN G_chars(s, p + 2, m)
    ELSE IF e = SLASH THEN (IF m.canon THEN NoMatch ELSE G_chars(s, p + 2, m))
    ELSE IF e = LOWER_U /\ \A i \in 2..5 : IsHexDigit(At(s, p + i)) THEN
        IF m.canon /\ ~CanonicalU(SubSeq(s, p + 3, p + 6)) THEN NoMatch
        ELSE G_chars(s, p + 6, m)
    ELSE NoMatch

G_unescape(e) ==
    IF e = LOWER_B THEN BS_CTL
    ELSE IF e = LOWER_F THEN FF_CTL
    ELSE IF e = LOWER_N THEN LF
    ELSE IF e = LOWER_R THEN CR
    ELSE IF e = LOWER_T THEN TAB
    ELSE e

\* The bytes a string in the writer's spelling stands for, from just past its
\* opening quote.
RECURSIVE G_decode(_, _)
G_decode(s, p) ==
    LET b == At(s, p) IN
    IF b = QUOTE \/ b = NoByte THEN <<>>
    ELSE IF b # BACKSLASH THEN <<b>> \o G_decode(s, p + 1)
    ELSE IF At(s, p + 1) = LOWER_U
        THEN <<16 * G_hex(At(s, p + 4)) + G_hex(At(s, p + 5))>>
             \o G_decode(s, p + 6)
    ELSE <<G_unescape(At(s, p + 1))>> \o G_decode(s, p + 2)

G_literal(s, p, lit) ==
    IF p + Len(lit) <= Len(s) /\ SubSeq(s, p + 1, p + Len(lit)) = lit
    THEN p + Len(lit) ELSE NoMatch

\* value = false / null / true / object / array / number / string; an array
\* is followed from its first element, an object from its first member
\* (prev: the key of the member before, if any).
RECURSIVE G_value(_, _, _), G_elements(_, _, _), G_members(_, _, _, _)
G_value(s, p, m) ==
    LET b == At(s, p)
        q == G_skip(s, p + 1, m)
    IN
    IF b = QUOTE THEN G_chars(s, p + 1, m)
    ELSE IF b = MINUS \/ IsDigit(b) THEN G_number(s, p, m)
    ELSE IF b = LBRACKET THEN
        IF At(s, q) = RBRACKET THEN q + 1 ELSE G_elements(s, q, m)
    ELSE IF b = LBRACE THEN
        IF At(s, q) = RBRACE THEN q + 1 ELSE G_members(s, q, m, None)
    ELSE IF b = LOWER_N THEN G_literal(s, p, NULL_TEXT)
    ELSE IF b = LOWER_T THEN G_literal(s, p, TRUE_TEXT)
    ELSE IF b = LOWER_F THEN G_literal(s, p, FALSE_TEXT)
    ELSE NoMatch

G_elements(s, p, m) ==
    LET q == G_value(s, p, m)
        r == G_skip(s, q, m)
    IN
    IF q = NoMatch THEN NoMatch
    ELSE IF At(s, r) = COMMA THEN G_elements(s, G_skip(s, r + 1, m), m)
    ELSE IF At(s, r) = RBRACKET THEN r + 1
    ELSE NoMatch

G_members(s, p, m, prev) ==
    LET q   == G_chars(s, p + 1, m)
        key == IF m.canon THEN Some(G_decode(s, p + 1)) ELSE None
        c   == G_skip(s, q, m)
        v   == G_value(s, G_skip(s, c + 1, m), m)
        r   == G_skip(s, v, m)
    IN
    IF At(s, p) # QUOTE \/ q = NoMatch THEN NoMatch
    ELSE IF m.canon /\ prev # None /\ ~StrLess(prev[1], key[1]) THEN NoMatch
    ELSE IF At(s, c) # COLON \/ v = NoMatch THEN NoMatch
    ELSE IF At(s, r) = COMMA THEN G_members(s, G_skip(s, r + 1, m), m, key)
    ELSE IF At(s, r) = RBRACE THEN r + 1
    ELSE NoMatch

\* JSON-text = ws value ws
JsonText(s, m) ==
    LET v == G_value(s, G_skip(s, 0, m), m) IN
    v # NoMatch /\ G_skip(s, v, m) = Len(s)

Lax == [ws |-> TRUE, nums |-> FALSE, canon |-> FALSE]
AsClaimed == [ws |-> FALSE, nums |-> TRUE, canon |-> FALSE]
AsWritten == [ws |-> FALSE, nums |-> TRUE, canon |-> TRUE]

\* =========================================================================
\* The claims
\* =========================================================================

Parsing == pc \in {"event", "delim", "element", "trailing"}

\* C1: Visitor callbacks come in document order.  The offsets of the calls
\* never go back; a value is delivered to a Visitor only after the key(k) /
\* element() call that returned that Visitor, and before the handle is asked
\* for the next one; between two calls made on a handle only one value went to
\* the Visitor the first of them returned (one element() per element, in
\* order); and nothing is called on a handle after its finish().
C1_DocumentOrder ==
    /\ \A i, j \in 1..Len(trace) : i < j => trace[i].pos <= trace[j].pos
    /\ \A j \in 1..Len(trace) :
        trace[j].op \in ValueOps /\ trace[j].vh # 0 =>
            \E i \in 1..(j - 1) :
                /\ trace[i].op \in {"element", "key"}
                /\ trace[i].ok
                /\ trace[i].h = trace[j].vh
                /\ trace[i].vn = trace[j].vn
                /\ \A k \in (i + 1)..(j - 1) :
                    ~(trace[k].op \in HandleOps /\ trace[k].h = trace[i].h)
    /\ \A i, j \in 1..Len(trace) :
        /\ i < j
        /\ trace[i].op \in {"element", "key"} /\ trace[i].ok
        /\ trace[j].op \in HandleOps /\ trace[j].h = trace[i].h
        /\ \A k \in (i + 1)..(j - 1) :
            ~(trace[k].op \in HandleOps /\ trace[k].h = trace[i].h)
        => /\ Cardinality({k \in (i + 1)..(j - 1) :
                            /\ trace[k].op \in ValueOps
                            /\ trace[k].vh = trace[i].h
                            /\ trace[k].vn = trace[i].vn}) = 1
           /\ trace[j].op # "finish" /\ trace[j].ok => trace[j].vn = trace[i].vn + 1
    /\ \A i, j \in 1..Len(trace) :
        i < j /\ trace[i].op = "finish" =>
            ~(trace[j].op \in HandleOps /\ trace[j].h = trace[i].h)

\* An object whose member is an array of two elements was parsed: key(k),
\* then element() twice on the array's handle, then its finish().
C1_Witness ==
    /\ result.tag = "Ok"
    /\ \E k, i, j, f \in 1..Len(trace) :
        /\ k < i /\ i < j /\ j < f
        /\ trace[k].op = "key"
        /\ trace[i].op = "element" /\ trace[j].op = "element"
        /\ trace[f].op = "finish"
        /\ trace[i].h = trace[j].h /\ trace[j].h = trace[f].h
        /\ handles[trace[i].h].out.h = trace[k].h

\* C2: finish() is called only on a handle that seq() / map() returned and
\* that was not finished before, a Seq handle on ']' and a Map handle on '}',
\* with every handle started inside it already finished; and when the parse
\* succeeds every handle that was started has been finished exactly once.
C2_BracketNesting ==
    /\ \A i \in 1..Len(trace) :
        trace[i].op = "finish" =>
            /\ \E j \in 1..(i - 1) :
                /\ trace[j].op \in {"seq", "map"}
                /\ trace[j].ok
                /\ trace[j].h = trace[i].h
                /\ At(input, trace[i].pos - 1) =
                     (IF trace[j].op = "seq" THEN RBRACKET ELSE RBRACE)
                /\ \A k \in (j + 1)..(i - 1) :
                    trace[k].op \in {"seq", "map"} /\ trace[k].ok =>
                        \E f \in (k + 1)..(i - 1) :
                            /\ trace[f].op = "finish" /\ trace[f].ok
                            /\ trace[f].h = trace[k].h
            /\ \A j \in 1..(i - 1) :
                ~(trace[j].op = "finish" /\ trace[j].h = trace[i].h)
    /\ result.tag = "Ok" =>
        \A j \in 1..Len(trace) :
            trace[j].op \in {"seq", "map"} =>
                Cardinality({i \in 1..Len(trace) :
                                /\ trace[i].op = "finish" /\ trace[i].ok
                                /\ trace[i].h = trace[j].h}) = 1

\* A successful parse of three nested containers of both kinds.
C2_Witness ==
    /\ result.tag = "Ok"
    /\ Len(handles) >= 3
    /\ \E a, b \in 1..Len(handles) :
        /\ handles[a].kind = "Seq" /\ handles[b].kind = "Map"
        /\ handles[a].out.h = b
    /\ \E c \in 1..Len(handles) : handles[c].out.h # 0 /\ handles[handles[c].out.h].out.h # 0

\* C3: the first failure ends the parse.  After a lexer error, a syntax
\* error or a callback that returned an error nothing but the drops of the
\* live handles follows, the driver has returned, and from_str / from_slice
\* returned an error and no value.
C3_ErrorAborts ==
    \A i \in 1..Len(trace) :
        ~trace[i].ok =>
            /\ \A j \in (i + 1)..Len(trace) : trace[j].op = "drop"
            /\ pc = "done"
            /\ result = ResErr

\* A callback failed after earlier ones had succeeded, with input left
\* unread.
C3_Witness ==
    /\ pc = "done"
    /\ \E i \in 1..Len(trace) :
        /\ ~trace[i].ok
        /\ trace[i].op \in HandleOps \cup ValueOps
        /\ trace[i].pos < Len(input)
        /\ i > 2
    /\ result = ResErr

\* C4 as amended: a well-formed JSON text without insignificant whitespace,
\* whose numbers and strings are spelled as the writer spells them and whose
\* objects have distinct keys in ascending byte order, parses as a Value and
\* is written back byte for byte.
C4_RoundTripAsWritten ==
    T = "Value" /\ from_utf8(input) /\ JsonText(input, AsWritten) =>
        /\ pc = "done" => result.tag = "Ok"
        /\ pc = "written" => text = input

\* An object of two members, one of them a string with an escape, was
\* written back.
C4_Witness ==
    /\ pc = "written"
    /\ JsonText(input, AsWritten)
    /\ text = input
    /\ result.value.t = "Object"
    /\ Len(result.value.o) = 2
    /\ \E i \in 1..Len(input) : input[i] = BACKSLASH

\* C4 as claimed: any well-formed JSON text without insignificant whitespace
\* and with canonical numbers is written back byte for byte.
C4_RoundTrip ==
    T = "Value" /\ from_utf8(input) /\ JsonText(input, AsClaimed) =>
        /\ pc = "done" => result.tag = "Ok"
        /\ pc = "written" => text = input

\* C5: J_N, N times {"x":[ and N times ]}, parses as a Value and is written
\* back as J_N; the explicit stacks of the driver and of the writer, which
\* stand for the recursion, hold fewer than 2N frames.
C5_DeepNest ==
    \A n \in 1..MaxNest :
        input = DeepNest(n) /\ T = "Value" =>
            /\ pc = "done" => result.tag = "Ok"
            /\ pc = "written" => text = input
            /\ Len(stack) < 2 * n
            /\ Len(ser_stack) < 2 * n

\* The deepest J_N of the model was parsed and written back.
C5_Witness ==
    /\ input = DeepNest(MaxNest)
    /\ pc = "written"
    /\ text = input

\* C6: a parse succeeds only on whitespace, one value, whitespace.  On
\* success some byte is no whitespace, exactly one value went to the root
\* Visitor, it ends after the first byte that is no whitespace, and every
\* byte after its end is whitespace; an input of whitespace alone is an
\* error.
RootCalls == {i \in 1..Len(trace) : trace[i].op \in ValueOps /\ trace[i].vh = 0}

C6_SingleRoot ==
    /\ result.tag = "Ok" =>
        /\ \E p \in 1..Len(input) : ~IsWs(input[p])
        /\ Cardinality(RootCalls) = 1
        /\ \A i \in RootCalls : G_ws(input, 0) < trace[i].pos
        /\ \A p \in (trace[Len(trace)].pos + 1)..Len(input) : IsWs(input[p])
    /\ pc = "done" /\ (\A p \in 1..Len(input) : IsWs(input[p])) => result = ResErr

\* The root value was complete and a non-whitespace byte followed whitespace
\* after it: the parse failed.
C6_Witness ==
    /\ pc = "done"
    /\ result = ResErr
    /\ Cardinality(RootCalls) = 1
    /\ \E i \in 1..Len(trace) :
        /\ trace[i].op = "syntax_error" /\ trace[i].h = 0
        /\ IsWs(At(input, trace[i].pos - 1))
        /\ ~IsWs(At(input, trace[i].pos))

\* C7: a closing bracket that does not match the layer the driver is in
\* makes the parse fail, and finish() is not called on that layer.  Whenever
\* the driver, between two elements of a layer, stands in front of ']' in a
\* Map or of '}' in a Seq, its next step returns an error and the trace holds
\* no finish() of that layer.
AtMismatch ==
    /\ pc = "delim"
    /\ \/ layer.kind = "Seq" /\ At(input, G_ws(input, pos)) = RBRACE
       \/ layer.kind = "Map" /\ At(input, G_ws(input, pos)) = RBRACKET

C7_MismatchedCloser ==
    [][AtMismatch =>
        /\ pc' = "done"
        /\ result' = ResErr
        /\ \A i \in 1..Len(trace') :
            ~(trace'[i].op = "finish" /\ trace'[i].h = layer.h)]_vars

\* "[1}" and its like: the parse failed on a '}' read in a Seq that has an
\* element, and the Seq was never finished.
C7_Witness ==
    /\ pc = "done"
    /\ result = ResErr
    /\ \E i \in 1..Len(trace) :
        /\ trace[i].op = "syntax_error"
        /\ trace[i].h # 0
        /\ handles[trace[i].h].kind = "Seq"
        /\ handles[trace[i].h].calls > 0
        /\ At(input, trace[i].pos - 1) = RBRACE
        /\ \A j \in 1..Len(trace) :
            ~(trace[j].op = "finish" /\ trace[j].h = trace[i].h)

\* The containers opened and closed so far, and the layer in hand.
Opened ==
    Cardinality({i \in 1..Len(trace) : trace[i].op \in {"seq", "map"} /\ trace[i].ok})
Closed ==
    Cardinality({i \in 1..Len(trace) : trace[i].op = "finish" /\ trace[i].ok})
Held == IF layer = NoLayer THEN 0 ELSE 1

\* C8 as amended: the open layers, which are the frames of the explicit
\* stack and the one layer the driver holds outside it, are one more per '['
\* or '{' and one fewer per ']' or '}'; the stack itself gains a frame when an
\* element of a layer begins and gives it back when the element is complete;
\* and when the driver returns, with success or with an error, the stack is
\* empty, no layer is held and every handle has been dropped.
C8_OpenLayers ==
    /\ Parsing => Len(stack) + Held = Opened - Closed
    /\ pc = "element" => Held = 1
    /\ pc \in {"event", "trailing"} => Held = 0
    /\ ~Parsing =>
        /\ stack = <<>>
        /\ Held = 0
        /\ \A h \in 1..Len(handles) : ~handles[h].live

\* An error return with three containers open: all of them were dropped.
C8_Witness ==
    /\ pc = "done"
    /\ result = ResErr
    /\ Opened - Closed >= 3
    /\ stack = <<>>
    /\ \A h \in 1..Len(handles) : ~handles[h].live

\* C8 as claimed: the stack holds one frame per '[' or '{' read and not yet
\* closed by its ']' or '}', and is empty when the driver returns.
C8_StackPerBracket ==
    /\ Parsing => Len(stack) = Opened - Closed
    /\ ~Parsing => stack = <<>>

\* C9: a handle is dropped only when the driver is through with it and with
\* the Visitors it returned, and the handles go innermost first.  After the
\* drop of a handle no value goes to a Visitor it returned, nothing is called
\* on it and no handle writing to its slot is finished; every handle created
\* through one of its Visitors was dropped before it; no handle is dropped
\* twice; and when the driver returns every handle has been dropped.
C9_DropOrder ==
    /\ \A i \in 1..Len(trace) :
        trace[i].op = "drop" =>
            /\ \A j \in (i + 1)..Len(trace) :
                /\ ~(trace[j].op \in ValueOps /\ trace[j].vh = trace[i].h)
                /\ ~(trace[j].op \in HandleOps /\ trace[j].h = trace[i].h)
                /\ ~(trace[j].op = "drop" /\ trace[j].h = trace[i].h)
                /\ trace[j].op = "finish" =>
                    handles[trace[j].h].out.h # trace[i].h
            /\ \A c \in 1..Len(handles) :
                handles[c].out.h = trace[i].h =>
                    \E k \in 1..(i - 1) :
                        trace[k].op = "drop" /\ trace[k].h = c
    /\ ~Parsing =>
        \A h \in 1..Len(handles) :
            \E i \in 1..Len(trace) : trace[i].op = "drop" /\ trace[i].h = h

\* An error with two frames on the stack: the inner handle was dropped, then
\* the outer.
C9_Witness ==
    /\ pc = "done"
    /\ result = ResErr
    /\ \E i, j \in 2..Len(trace) :
        /\ j = i + 1
        /\ trace[i].op = "drop" /\ trace[j].op = "drop"
        /\ handles[trace[i].h].out.h = trace[j].h
        /\ trace[i - 1].op = "lex_error"

\* C10: every string a Visitor or a Map handle receives is valid UTF-8.
C10_Utf8Delivered ==
    \A i \in 1..Len(trace) :
        trace[i].op \in {"string", "key"} => from_utf8(trace[i].arg)

\* from_slice delivered a key put together from a validated chunk of more
\* than one byte and an escape.
C10_Witness ==
    /\ validate_utf8
    /\ \E i \in 1..Len(trace) :
        /\ trace[i].op = "key"
        /\ trace[i].ok
        /\ \E p \in 1..Len(trace[i].arg) : trace[i].arg[p] = 195
        /\ \E p \in 1..Len(input) : input[p] = BACKSLASH

\* The input is one non-negative integer literal: digits, no leading zero,
\* no fraction, no exponent.
IntegerLiteral ==
    /\ input # <<>>
    /\ \A i \in 1..Len(input) : IsDigit(input[i])
    /\ input[1] = DIGIT0 => Len(input) = 1

\* The length of the longest prefix of the digits d whose value fits in u64.
FitsU64(d) == NumLeq(d, U64_MAX)
LongestPrefix(d) ==
    CHOOSE k \in 1..Len(d) :
        /\ FitsU64(SubSeq(d, 1, k))
        /\ k < Len(d) => ~FitsU64(SubSeq(d, 1, k + 1))

\* What the literal is delivered as: nonnegative(v), or float(prefix * 10^rest).
DeliveredU64(d) ==
    /\ result = ResOk(VNumber(NU64(d)))
    /\ trace[1].op = "nonnegative"
DeliveredFloat(d) ==
    /\ result = ResOk(VNumber(NF64(F64(FALSE, SubSeq(d, 1, LongestPrefix(d)),
                                       Len(d) - LongestPrefix(d)))))
    /\ trace[1].op = "float"

\* C11 as amended: a non-negative integer literal of value v <= u64::MAX is
\* delivered as Nonnegative(v), exactly; a larger one is delivered as the Float
\* made of its longest prefix that fits in u64 and the count of the digits
\* left, as long as that product is a finite f64, which it is for a literal of
\* up to 308 digits; a literal of 310 digits or more makes the parse fail.
C11_IntegerLiteral ==
    IntegerLiteral /\ T = "Value" /\ ~Parsing =>
        LET d == DigitsOf(input) IN
        IF FitsU64(d) THEN DeliveredU64(d)
        ELSE /\ Len(d) < POW10_LEN => DeliveredFloat(d)
             /\ Len(d) > POW10_LEN => result = ResErr

\* A literal of more than 20 digits was delivered as a Float whose
\* significand is its first 20 digits.
C11_Witness ==
    /\ IntegerLiteral
    /\ pc = "written"
    /\ Len(input) > 21
    /\ DeliveredFloat(DigitsOf(input))
    /\ Len(result.value.n.v.sig) = 20

\* C11 as claimed: a literal above u64::MAX never fails and is delivered as a
\* Float.
C11_IntegerNeverFails ==
    IntegerLiteral /\ T = "Value" /\ ~Parsing =>
        LET d == DigitsOf(input) IN
        IF FitsU64(d) THEN DeliveredU64(d) ELSE DeliveredFloat(d)

\* The code points of a UTF-8 text, by the definition of UTF-8.
RECURSIVE CodesOf(_)
CodesOf(s) ==
    IF s = <<>> THEN <<>>
    ELSE IF s[1] < 128 THEN <<s[1]>> \o CodesOf(Tail(s))
    ELSE IF s[1] < 224
        THEN <<(s[1] - 192) * 64 + (s[2] - 128)>> \o CodesOf(SubSeq(s, 3, Len(s)))
    ELSE IF s[1] < 240
        THEN <<(s[1] - 224) * 4096 + (s[2] - 128) * 64 + (s[3] - 128)>>
             \o CodesOf(SubSeq(s, 4, Len(s)))
    ELSE <<(s[1] - 240) * 262144 + (s[2] - 128) * 4096 + (s[3] - 128) * 64
            + (s[4] - 128)>> \o CodesOf(SubSeq(s, 5, Len(s)))

Utf8Len(c) == IF c < 128 THEN 1 ELSE IF c < 2048 THEN 2 ELSE IF c < 65536 THEN 3 ELSE 4

RECURSIVE SumLen(_)
SumLen(cs) == IF cs = <<>> THEN 0 ELSE Utf8Len(cs[1]) + SumLen(Tail(cs))

IsHighSurrogate(n) == 55296 <= n /\ n <= 56319
IsLowSurrogate(n) == 56320 <= n /\ n <= 57343

\* What the string "\uXXXX" + tail stands for: no string at all, or its code
\* points.
NoString == <<0 - 1>>
EscExpected(n1, t) ==
    IF IsLowSurrogate(n1) THEN NoString
    ELSE IF IsHighSurrogate(n1) THEN
        IF t.k = "unit" /\ IsLowSurrogate(t.n)
        THEN <<((n1 - 55296) * 1024 + (t.n - 56320)) + 65536>>
        ELSE NoString
    ELSE IF t.k = "unit" THEN
        IF IsLowSurrogate(t.n) \/ IsHighSurrogate(t.n) THEN NoString
        ELSE <<n1, t.n>>
    ELSE <<n1>> \o EscTailText(t)

\* C12: in a \u escape a low surrogate that comes first fails; a high
\* surrogate fails unless \u and a low surrogate follow at once, and the pair
\* is the code point ((n1 - 0xD800) << 10 | (n2 - 0xDC00)) + 0x10000, between
\* 0x10000 and 0x10FFFF; any other code unit is its own code point; and each
\* code point reaches the Visitor as its 1 to 4 bytes of UTF-8.
C12_UnicodeEscape ==
    ~Parsing /\ At(input, 1) = BACKSLASH /\ At(input, 2) = LOWER_U =>
    \A n1 \in EscUnits, t \in EscTails :
        input = EscText(n1, t) =>
            LET want == EscExpected(n1, t) IN
            IF want = NoString THEN result = ResErr
            ELSE /\ result.tag = "Ok"
                 /\ result.value.t = "String"
                 /\ from_utf8(result.value.s)
                 /\ CodesOf(result.value.s) = want
                 /\ Len(result.value.s) = SumLen(want)
                 /\ IsHighSurrogate(n1) => 65536 <= want[1] /\ want[1] <= 1114111

\* The pair of the code units DBFF and DFFF was delivered as the four bytes
\* of U+10FFFF.
C12_Witness ==
    /\ input = EscText(56319, [k |-> "unit", n |-> 57343])
    /\ pc = "written"
    /\ result = ResOk(VString(<<244, 143, 191, 191>>))

WriterSteps == SerScalar \/ SerOpen \/ SerOpenEmpty \/ SerNext \/ SerClose \/ SerReturn

\* C13: the writer emits null, and nothing else, for an F64 fragment that is
\* NaN or an infinity, and something other than null for a finite one; and
\* the writer has no error outcome: from every point of a to_string call it
\* has a next step, up to its return.
C13_NonFiniteNull ==
    /\ [](pc \in {"ser_fragment", "ser_post"} => ENABLED WriterSteps)
    /\ [][pc = "ser_fragment" /\ fragment.f = "F64" =>
            /\ pc' = "ser_post"
            /\ IF fragment.n.cls \in {"nan", "inf"}
               THEN text' = text \o NULL_TEXT
               ELSE /\ Len(text') >= Len(text) + 3
                    /\ SubSeq(text', 1, Len(text)) = text
                    /\ SubSeq(text', Len(text) + 1, Len(text')) # NULL_TEXT]_vars

\* to_string of an array of NaN and a string is [null,"a"].
C13_Witness ==
    /\ pc = "written"
    /\ result.value = VArray(<<VNumber(NF64(NaN)), VString(<<LOWER_A>>)>>)
    /\ text = <<LBRACKET>> \o NULL_TEXT \o <<COMMA, QUOTE, LOWER_A, QUOTE, RBRACKET>>

\* What JSON asks of one byte of a string on output.
LowerHex(n) == IF n < 10 THEN 48 + n ELSE 97 + (n - 10)
EscapedByte(b) ==
    IF b = 8 THEN <<92, 98>>
    ELSE IF b = 9 THEN <<92, 116>>
    ELSE IF b = 10 THEN <<92, 110>>
    ELSE IF b = 12 THEN <<92, 102>>
    ELSE IF b = 13 THEN <<92, 114>>
    ELSE IF b \in 0..31 THEN <<92, 117, 48, 48, LowerHex(b \div 16), LowerHex(b % 16)>>
    ELSE IF b = 34 THEN <<92, 34>>
    ELSE IF b = 92 THEN <<92, 92>>
    ELSE <<b>>
EscapedText(s) == Concat([i \in 1..Len(s) |-> EscapedByte(s[i])])

\* C14: the writer's step for a Str fragment appends one double quote, the
\* bytes of the string in order, each control byte, double quote and
\* backslash replaced by its escape and every other byte as it is, and one
\* double quote.
C14_OutputEscaping ==
    [][pc = "ser_fragment" /\ fragment.f = "Str" =>
            text' = text \o <<34>> \o EscapedText(fragment.s) \o <<34>>]_vars

\* The string a, line feed, double quote is written as "a\n\"".
C14_Witness ==
    /\ pc = "written"
    /\ result.value = VString(<<LOWER_A, LF, QUOTE>>)
    /\ text = <<34, 97, 92, 110, 92, 34, 34>>

\* The index of the first double quote or backslash of a slice, its length
\* when it has none.
FirstSpecial(slice) ==
    CHOOSE n \in 0..Len(slice) :
        /\ \A k \in 1..n : slice[k] \notin {34, 92}
        /\ n < Len(slice) => slice[n + 1] \in {34, 92}

IntOfU64(d) == [neg |-> FALSE, mag |-> d]
IntOfI64(x) == [neg |-> x.neg /\ x.mag # Zero, mag |-> x.mag]
IntOfNumber(n) == IF n.k = "U64" THEN IntOfU64(n.v) ELSE IntOfI64(n.v)
IsU64(v) == v.t = "Number" /\ v.n.k = "U64"
IsI64(v) == v.t = "Number" /\ v.n.k = "I64"

\* C16: as_u64 returns Some exactly for a U64 and for an I64 that is not
\* negative, as_i64 exactly for an I64 and for a U64 that is at most
\* i64::MAX; a returned Some is the integer that is stored, and it is in the
\* range of the returned type.
C16_AccessorContract ==
    /\ ret.fn = "as_u64" =>
        /\ ret.v # None <=> IsU64(ret.of) \/ (IsI64(ret.of) /\ ~IntOfI64(ret.of.n.v).neg)
        /\ ret.v # None =>
            /\ IntOfU64(ret.v[1]) = IntOfNumber(ret.of.n)
            /\ NumLeq(ret.v[1], U64_MAX)
    /\ ret.fn = "as_i64" =>
        /\ ret.v # None <=> IsI64(ret.of) \/ (IsU64(ret.of) /\ NumLeq(ret.of.n.v, I64_MAX))
        /\ ret.v # None =>
            /\ IntOfI64(ret.v[1]) = IntOfNumber(ret.of.n)
            /\ IF ret.v[1].neg THEN NumLeq(ret.v[1].mag, TWO_63)
               ELSE NumLeq(ret.v[1].mag, I64_MAX)

\* as_i64 of the U64 2^63 (i64::MAX + 1) has returned None.
C16_Witness ==
    /\ ret = [fn |-> "as_i64", of |-> VNumber(NU64(TWO_63)), v |-> None]
    /\ target = VNumber(NU64(TWO_63))

\* What one index step is to yield: the element or the mapped value when
\* there is one, Null otherwise.
ValidStep(v, e) ==
    IF e.usize THEN v.t = "Array" /\ e.i < Len(v.a)
    ELSE v.t = "Object" /\ \E m \in 1..Len(v.o) : v.o[m].k = e.k
StepOf(v, e) ==
    IF ~ValidStep(v, e) THEN VNull
    ELSE IF e.usize THEN v.a[e.i + 1]
    ELSE v.o[CHOOSE m \in 1..Len(v.o) : v.o[m].k = e.k].v
RECURSIVE Lookup(_, _)
Lookup(v, p) == IF p = <<>> THEN v ELSE StepOf(Lookup(v, Front(p)), Last(p))

\* C17: indexing is total.  While the caller holds a Value, v[i] and v[k] can
\* be taken for every i and k; what a chain of indexes yields is the element
\* or mapped value step by step, and Null from the first invalid step on.
C17_IndexingTotal ==
    /\ pc = "done" /\ Len(path) < MaxChain =>
        /\ ENABLED Value_index_usize
        /\ ENABLED Value_index_str
    /\ target # NoValue =>
        /\ target = Lookup(result.value, path)
        /\ target.t \in {"Null", "Bool", "Number", "String", "Array", "Object"}
        /\ \A n \in 1..Len(path) :
            ~ValidStep(Lookup(result.value, SubSeq(path, 1, n - 1)), path[n])
                => target = VNull

\* v["a"][1] on {"a":[true,"a"]} is the string a.
C17_Witness ==
    /\ result.value = VObject(<<[k |-> <<LOWER_A>>,
                                v |-> VArray(<<VBool(TRUE), VString(<<LOWER_A>>)>>)]>>)
    /\ path = <<[usize |-> FALSE, i |-> 0, k |-> <<LOWER_A>>],
                [usize |-> TRUE, i |-> 1, k |-> <<>>]>>
    /\ target = VString(<<LOWER_A>>)

\* The items and commas of the body of a container, in order: "i" for an
\* element or a member (a run of digits is one number), "c" for a comma.
RECURSIVE BodyTokens(_)
BodyTokens(b) ==
    IF b = <<>> THEN <<>>
    ELSE IF b[1] = 32 THEN BodyTokens(Tail(b))
    ELSE IF b[1] = 44 THEN <<"c">> \o BodyTokens(Tail(b))
    ELSE IF b[1] = 34 THEN <<"i">> \o BodyTokens(SubSeq(b, Len(Member) + 1, Len(b)))
    ELSE IF Len(b) > 1 /\ b[2] \in 48..57 THEN BodyTokens(Tail(b))
    ELSE <<"i">> \o BodyTokens(Tail(b))

\* Items separated by single commas, or nothing at all.
WellSeparated(t) ==
    \/ t = <<>>
    \/ /\ Len(t) % 2 = 1
       /\ \A k \in 1..Len(t) : t[k] = (IF k % 2 = 1 THEN "i" ELSE "c")

HandleCalls(op) == {i \in 1..Len(trace) : trace[i].op = op}

\* C20: a container whose items are not separated by single commas, or that
\* has a comma before its first item or after its last, makes the parse
\* fail, whatever the Visitors answer; with a Value as the target every
\* other container parses, one element() or key() per item; an empty
\* container is finished without any element() or key() call.
C20_CommaRules ==
    pc = "done" /\ input \in CommaTexts =>
        LET t == BodyTokens(SubSeq(input, 2, Len(input) - 1))
            items == Cardinality({k \in 1..Len(t) : t[k] = "i"})
        IN  /\ ~WellSeparated(t) => result = ResErr
            /\ WellSeparated(t) /\ T = "Value" =>
                /\ result.tag = "Ok"
                /\ Cardinality(HandleCalls("finish")) = 1
                /\ Cardinality(HandleCalls("element") \cup HandleCalls("key")) = items
            /\ t = <<>> => HandleCalls("element") \cup HandleCalls("key") = {}

\* [1,] has failed after one element() call, the comma and no finish().
C20_Witness ==
    /\ pc = "done"
    /\ input = <<LBRACKET, DIGIT1, COMMA, RBRACKET>>
    /\ result = ResErr
    /\ Cardinality(HandleCalls("element")) = 1
    /\ HandleCalls("finish") = {}

\* [] has parsed with finish() and no element() call.
C20_WitnessEmpty ==
    /\ pc = "done"
    /\ input = <<LBRACKET, RBRACKET>>
    /\ result = ResOk(VArray(<<>>))
    /\ Cardinality(HandleCalls("finish")) = 1

\* The values of the serde rename attributes written on a field or variant.
RenamesOn(x) ==
    {x.attrs[a].metas[m].value[1] :
        <<a, m>> \in {p \in (1..Len(x.attrs)) \X (1..3) :
                        /\ x.attrs[p[1]].path = "serde"
                        /\ p[2] <= Len(x.attrs[p[1]].metas)
                        /\ x.attrs[p[1]].metas[p[2]].name = "rename"
                        /\ x.attrs[p[1]].metas[p[2]].value # <<>>}}

\* The identifier without its raw prefix.
WithoutRawPrefix(id) ==
    IF Len(id) >= 2 /\ id[1] = 114 /\ id[2] = 35 THEN SubSeq(id, 3, Len(id)) ELSE id

\* The JSON name the claim gives a field or variant.
JsonName(x) ==
    IF RenamesOn(x) # {} THEN CHOOSE s \in RenamesOn(x) : TRUE
    ELSE WithoutRawPrefix(x.ident)

\* C18: the name of a variant or field in JSON is the value of its rename
\* attribute, or else its identifier without r#.  The generated impls write
\* that name and read that name: to_string of a variant is the name in
\* quotes, from_str of the name in quotes is the variant, from_str of what
\* to_string wrote is the value written; a struct writes its members under
\* the names of its fields and reads a member with that name into the field.
C18_JsonNames ==
    /\ derived.ok /\ derived.kind = "enum" =>
        /\ \A k \in 1..Len(item.variants) :
            /\ derived.names[k] = JsonName(item.variants[k])
            /\ Enum_from_str(derived, <<34>> \o JsonName(item.variants[k]) \o <<34>>)
                    = AttrOk(RVariant(k))
        /\ call.fn = "to_string" =>
            call.ret = <<34>> \o JsonName(item.variants[call.arg.k]) \o <<34>>
        /\ call.fn = "from_str" /\ call.after.fn = "to_string" =>
            call.ret = AttrOk(call.after.arg)
    /\ derived.ok /\ derived.kind = "struct" =>
        /\ \A k \in 1..Len(item.fields) :
            derived.fields[k].name = JsonName(item.fields[k])
        /\ call.fn = "to_string" =>
            \A n \in 1..Len(call.ret) :
                \E k \in 1..Len(item.fields) : call.ret[n] = JsonName(item.fields[k])
        /\ call.fn = "from_str" /\ call.ret.ok =>
            \A k \in 1..Len(item.fields), m \in 1..Len(call.arg) :
                call.arg[m].k = JsonName(item.fields[k]) =>
                    AttrOk(call.ret.v.fields[k])
                        = Field_parse(item.fields[k].ty, call.arg[m].v)

\* The enum Tag of the tests: to_string(&Tag::B) wrote "renamedB" and
\* from_str of it has given Tag::B back.
C18_Witness ==
    /\ item.kind = "enum"
    /\ item.variants = <<[ident |-> ID_A, attrs |-> <<>>],
                         [ident |-> ID_B, attrs |-> <<SerdeRename(LIT_RENAMED_B)>>],
                         [ident |-> ID_RAW_ENUM, attrs |-> <<AllowAttr>>]>>
    /\ derived.ok
    /\ derived.names = <<ID_A, LIT_RENAMED_B, <<101, 110, 117, 109>>>>
    /\ call.fn = "from_str"
    /\ call.arg = <<34>> \o LIT_RENAMED_B \o <<34>>
    /\ call.after.fn = "to_string"
    /\ call.after.arg = RVariant(2)
    /\ call.ret = AttrOk(RVariant(2))

\* The serde default attributes written on a field or container: <<>> for
\* `default`, <<p>> for `default = "p"`.
DefaultsOn(x) ==
    {x.attrs[p[1]].metas[p[2]].value :
        p \in {q \in (1..Len(x.attrs)) \X (1..3) :
                 /\ x.attrs[q[1]].path = "serde"
                 /\ q[2] <= Len(x.attrs[q[1]].metas)
                 /\ x.attrs[q[1]].metas[q[2]].name = "default"}}

MemberFor(members, k) ==
    {m \in 1..Len(members) : members[m].k = JsonName(item.fields[k])}

\* What a field is to be after from_str, by the rules of the claim; option:
\* whether an absent Option field with no default is None (as the tests
\* have it) or an error (as the claim has it).
ExpectedField(members, k, option) ==
    LET f == item.fields[k]
        own == DefaultsOn(f)
        cont == DefaultsOn(item)
    IN
    IF MemberFor(members, k) # {}
        THEN Field_parse(f.ty, members[CHOOSE m \in MemberFor(members, k) : TRUE].v)
    ELSE IF own = {<<>>} THEN
        AttrOk(IF f.ty = "String" THEN RString(<<>>)
               ELSE IF f.ty = "u32" THEN RU32(<<0>>) ELSE RNone)
    ELSE IF own # {} THEN AttrOk(RCall((CHOOSE v \in own : TRUE)[1]))
    ELSE IF cont = {<<>>} THEN AttrOk(RFieldOf(RCall(DEFAULT_DEFAULT), f.ident))
    ELSE IF cont # {} THEN
        AttrOk(RFieldOf(RCall((CHOOSE v \in cont : TRUE)[1]), f.ident))
    ELSE IF option /\ f.ty = "Option<String>" THEN AttrOk(RNone)
    ELSE AttrErr

ExpectedStruct(members, option) ==
    IF \E k \in 1..Len(item.fields) : ~ExpectedField(members, k, option).ok
    THEN AttrErr
    ELSE AttrOk(RStruct([k \in 1..Len(item.fields) |->
                            ExpectedField(members, k, option).v]))

IsStructFromStr == derived.ok /\ derived.kind = "struct" /\ call.fn = "from_str"

\* C19: from_str of an object into a derived struct.  A field whose member is
\* present takes the parsed value; an absent field takes its own default
\* (Default::default() or the named function), else the field of the
\* container default, else None when it is an Option, and else the parse
\* fails; the result is the same with the members that match no field
\* taken out.
C19_StructDefaults ==
    IsStructFromStr =>
        /\ call.ret = ExpectedStruct(call.arg, TRUE)
        /\ call.ret = Struct_from_members(derived,
                SelectSeq(call.arg, LAMBDA m : m.k # KEY_UNKNOWN))

\* C19 as claimed: every absent field that has no default, of its own or of
\* the container, makes from_str fail.
C19_AbsentWithoutDefaultFails ==
    IsStructFromStr => call.ret = ExpectedStruct(call.arg, FALSE)

\* A String field that is present, a u32 field with `default` that is
\* absent and a key that is no field: the struct holds "a" and 0.
C19_Witness ==
    /\ IsStructFromStr
    /\ item.attrs = <<>>
    /\ item.fields[1].attrs = <<>> /\ item.fields[1].ty = "String"
    /\ item.fields[2].attrs = <<SerdeDefault>> /\ item.fields[2].ty = "u32"
    /\ call.arg = <<[k |-> ID_X, v |-> VString(<<LOWER_A>>)],
                    [k |-> KEY_UNKNOWN, v |-> VNull]>>
    /\ call.ret = AttrOk(RStruct(<<RString(<<LOWER_A>>), RU32(<<0>>)>>))

\* A struct with a container default whose second member is absent.
C19_WitnessContainer ==
    /\ IsStructFromStr
    /\ item.attrs = <<SerdeDefault>>
    /\ call.arg = <<[k |-> ID_X, v |-> VString(<<LOWER_A>>)]>>
    /\ call.ret = AttrOk(RStruct(<<RString(<<LOWER_A>>),
                                   RFieldOf(RCall(DEFAULT_DEFAULT), ID_RAW_STRUCT)>>))

\* The entries a step adds to the trace.
Added == (Len(trace) + 1)..Len(trace')
AtEntry == pc = "element" /\ layer.kind = "Map"

\* C21: the step of the driver at an object entry.  It calls key() at most
\* once, and only when the next byte that is no whitespace is '"', with the
\* text of the string that ends there.  Unless that byte is '"' and the key
\* is accepted and the next byte that is no whitespace is ':', the step fails;
\* when a ':' is missing nothing is called after key() (the Visitor key()
\* returned gets no callback), and only after the ':' is the frame pushed and
\* the Visitor of key() made the current one, the value still to be lexed.
C21_MapEntry ==
    [][AtEntry =>
        LET first == At(input, G_ws(input, pos))
            keys == {i \in Added : trace'[i].op = "key"}
        IN  /\ Cardinality(keys) <= 1
            /\ first # QUOTE => keys = {} /\ result' = ResErr /\ pc' = "done"
            /\ pc' # "done" => Cardinality(keys) = 1
            /\ \A i \in keys :
                LET after == G_ws(input, trace'[i].pos) IN
                /\ first = QUOTE
                /\ At(input, trace'[i].pos - 1) = QUOTE
                /\ trace'[i].h = layer.h
                /\ ~trace'[i].ok => result' = ResErr /\ pc' = "done"
                /\ trace'[i].ok /\ At(input, after) # COLON =>
                    /\ result' = ResErr /\ pc' = "done"
                    /\ \A j \in Added :
                        j > i => trace'[j].op \notin ValueOps \cup HandleOps
                /\ trace'[i].ok /\ At(input, after) = COLON =>
                    /\ pc' = "event"
                    /\ i = Len(trace')
                    /\ pos' = after + 1
                    /\ stack' = Append(stack, [outer |-> visitor, layer |-> layer])
                    /\ visitor' = Vis(trace'[i].vh, trace'[i].vn)]_vars

\* {"a"1}: key("a") was called, the ':' is missing, the parse has failed and
\* the Visitor of the key was never called.
C21_Witness ==
    /\ input = <<LBRACE, QUOTE, LOWER_A, QUOTE, DIGIT1, RBRACE>>
    /\ pc = "done"
    /\ result = ResErr
    /\ \E i \in 1..Len(trace) :
        /\ trace[i].op = "key" /\ trace[i].ok
        /\ trace[i + 1].op = "syntax_error"
        /\ \A j \in 1..Len(trace) : trace[j].op \notin {"nonnegative", "finish"}

\* ------------------------------------------------------------------- C22

RECURSIVE NatOf(_)
NatOf(d) == IF d = <<>> THEN 0 ELSE 10 * NatOf(Front(d)) + Last(d)

\* A bound below which 10^n is a finite f64 whatever significand of at
\* most twenty digits it multiplies.
SafeExp == POW10_LEN - 29

\* The parts of the JSON number that begins at p, read left to right as
\* the grammar -?(0|[1-9][0-9]*)(\.[0-9]+)?([eE][+-]?[0-9]+)? reads them:
\* `bad` says that one of the four ways of breaking the grammar happens
\* (no digit after '-', a digit after a leading 0, no digit after '.', no
\* digit after the exponent marker and its sign), `end` is where the longest
\* lexeme ends when none does.
NumberShape(s, p) ==
    LET neg   == At(s, p) = MINUS
        i0    == IF neg THEN p + 1 ELSE p
        nodig == ~IsDigit(At(s, i0))
        i1    == IF At(s, i0) = DIGIT0 THEN i0 + 1 ELSE G_digits(s, i0)
        lead  == At(s, i0) = DIGIT0 /\ IsDigit(At(s, i0 + 1))
        dot   == ~nodig /\ ~lead /\ At(s, i1) = DOT
        f1    == IF dot THEN G_digits(s, i1 + 1) ELSE i1
        nofr  == dot /\ f1 = i1 + 1
        ex    == ~nodig /\ ~lead /\ ~nofr /\ At(s, f1) \in {LOWER_E, UPPER_E}
        sgn   == At(s, f1 + 1) \in {PLUS, MINUS}
        e0    == IF sgn THEN f1 + 2 ELSE f1 + 1
        e1    == IF ex THEN G_digits(s, e0) ELSE f1
        noex  == ex /\ e1 = e0
    IN  [bad |-> nodig \/ lead \/ nofr \/ noex,
         neg |-> neg,
         float |-> dot \/ ex,
         exp |-> ex,
         end |-> e1,
         int |-> IF nodig \/ lead THEN Zero
                 ELSE DigitsOf(SubSeq(s, i0 + 1, i1)),
         frac |-> IF dot /\ ~nofr THEN DigitsOf(SubSeq(s, i1 + 2, f1))
                  ELSE <<>>,
         expneg |-> ex /\ At(s, f1 + 1) = MINUS,
         expdig |-> IF ex /\ ~noex THEN StripZeros(DigitsOf(SubSeq(s, e0 + 1, e1)))
                    ELSE Zero]

\* The lexeme is far inside the range of f64: it is zero, or its exponent
\* is negative, or the integer digits and the exponent together stay
\* below SafeExp.
FarInRange(n) ==
    \/ \A i \in 1..Len(n.int \o n.frac) : (n.int \o n.frac)[i] = 0
    \/ n.expneg /\ Len(n.int) < SafeExp
    \/ /\ Len(n.expdig) <= 3
       /\ Len(n.int) + NatOf(n.expdig) < SafeExp

\* The event is the one of a call that found a number at the first byte
\* that is no whitespace.
AtNumber ==
    /\ pc = "lexed"
    /\ lexed.from = 0
    /\ LET b == At(input, G_ws(input, 0)) IN b = MINUS \/ IsDigit(b)

\* C22 as the code has it: the number lexer accepts only lexemes of the
\* grammar -?(0|[1-9][0-9]*)(\.[0-9]+)?([eE][+-]?[0-9]+)? and stops at the
\* end of the longest one; a leading 0 followed by a digit, a '-', a '.' or
\* an exponent marker without a digit after it are errors; with a fraction
\* or an exponent the event is a Float, with neither it is an integer event
\* unless the magnitude is out of the integer range; and every lexeme of
\* the grammar whose value is far inside the range of f64 is accepted (one
\* whose value is too large for a finite f64 is an error, not a lexeme the
\* lexer accepts).
C22_NumberGrammar ==
    AtNumber =>
        LET n == NumberShape(input, G_ws(input, 0)) IN
        /\ n.bad => ~lexed.ok
        /\ lexed.ok =>
            /\ ~n.bad
            /\ lexed.pos = n.end
            /\ n.float => lexed.ev.e = "Float"
            /\ ~n.float /\ ~n.neg /\ NumLeq(n.int, U64_MAX) =>
                    lexed.ev = [e |-> "Nonnegative", n |-> n.int]
            /\ ~n.float /\ n.neg /\ NumLeq(n.int, TWO_63) =>
                    lexed.ev = [e |-> "Negative", n |-> I64(TRUE, n.int)]
        /\ ~n.bad /\ FarInRange(n) => lexed.ok

\* C22 as stated: the number lexer accepts exactly the lexemes of the
\* grammar, that is, it fails only in the four ways of breaking it.
C22_AcceptsExactly ==
    AtNumber => (lexed.ok <=> ~NumberShape(input, G_ws(input, 0)).bad)

\* "1.0e1" is lexed to its end as a Float.
C22_Witness ==
    /\ pc = "lexed"
    /\ input = <<DIGIT1, DOT, DIGIT0, LOWER_E, DIGIT1>>
    /\ lexed.ok
    /\ lexed.pos = 5
    /\ lexed.ev.e = "Float"

\* ------------------------------------------------------------------- C23

\* C23: a negative integer literal -m with m <= u64::MAX and no fraction
\* or exponent is lexed to Negative(-m), exactly, when m <= 2^63 (Negative(0)
\* for "-0", i64::MIN for m = 2^63) and to Float(-m) when m > 2^63; a
\* Negative event never carries a positive value.
C23_NegativeIntegers ==
    AtNumber =>
        LET n == NumberShape(input, G_ws(input, 0)) IN
        /\ n.neg /\ ~n.bad /\ ~n.float /\ NumLeq(n.int, U64_MAX) =>
            /\ lexed.ok
            /\ lexed.pos = n.end
            /\ lexed.ev = IF NumLeq(n.int, TWO_63)
                    THEN [e |-> "Negative",
                          n |-> [neg |-> n.int # Zero, mag |-> n.int]]
                    ELSE [e |-> "Float", f |-> F64(TRUE, n.int, 0)]
        /\ lexed.ok /\ lexed.ev.e = "Negative" =>
            /\ lexed.ev.n.neg \/ lexed.ev.n.mag = Zero
            /\ NumLeq(lexed.ev.n.mag, TWO_63)

\* "-9223372036854775808" is Negative(i64::MIN).
C23_Witness ==
    /\ pc = "lexed"
    /\ input = <<MINUS>> \o itoa_u64(TWO_63)
    /\ lexed.ok
    /\ lexed.ev = [e |-> "Negative", n |-> [neg |-> TRUE, mag |-> TWO_63]]

\* "-9223372036854775809" is a Float.
C23_WitnessFloat ==
    /\ pc = "lexed"
    /\ input = <<MINUS>> \o itoa_u64(Mul10Add(Div10(TWO_63), 9))
    /\ lexed.ok
    /\ lexed.ev.e = "Float"
    /\ lexed.ev.f.neg

\* ------------------------------------------------------------------- C24

I32_MAX_DIGITS == <<2,1,4,7,4,8,3,6,4,7>>

\* The exponent digits of the number, read as a number, are above i32::MAX.
ExponentOverflows(n) == NumLess(I32_MAX_DIGITS, n.expdig)

\* Every digit of the integer part and of the fraction is 0.
ZeroDigits(n) == \A i \in 1..Len(n.int \o n.frac) : (n.int \o n.frac)[i] = 0

\* C24: when the exponent digits of a number overflow i32, the lexer fails
\* if the exponent is positive and the significand is not zero; otherwise
\* it consumes the exponent digits that remain and the event is a Float that
\* is zero with the sign of the number, never an infinity.
C24_ExponentOverflow ==
    AtNumber =>
        LET n == NumberShape(input, G_ws(input, 0)) IN
        ~n.bad /\ ExponentOverflows(n) =>
            IF ~n.expneg /\ ~ZeroDigits(n)
            THEN ~lexed.ok
            ELSE /\ lexed.ok
                 /\ lexed.pos = n.end
                 /\ lexed.ev = [e |-> "Float", f |-> F64(n.neg, Zero, 0)]

\* "-1e-99999999999," is lexed up to the comma, as -0.0.
C24_Witness ==
    /\ pc = "lexed"
    /\ input = <<MINUS, DIGIT1, LOWER_E, MINUS>>
                    \o itoa_u64(<<9,9,9,9,9,9,9,9,9,9,9>>) \o <<COMMA>>
    /\ lexed.ok
    /\ lexed.pos = Len(input) - 1
    /\ lexed.ev = [e |-> "Float", f |-> F64(TRUE, Zero, 0)]

\* "1e2147483648" fails.
C24_WitnessFail ==
    /\ pc = "lexed"
    /\ input = <<DIGIT1, LOWER_E>> \o itoa_u64(<<2,1,4,7,4,8,3,6,4,8>>)
    /\ ~lexed.ok

\* ------------------------------------------------------------------- C25

\* After k divisions by 1e308 the loop of f64_from_parts ends: the exponent
\* has come into the range of the table or the value has become 0.
RoundsEnd(sig, exponent, k) ==
    \/ 0 - POW10_LEN < exponent + 308 * k
    \/ IsZeroF(sig, 0 - 308 * k)

\* C25: f64_from_parts terminates for every significand and every i32
\* exponent, i32::MIN and i32::MAX included, after at most two divisions by
\* 1e308.  With an exponent above 308 it fails when the significand is not
\* zero and returns zero when it is; with an exponent below -308 it divides
\* by 1e308, adding 308 to the exponent, until the exponent is in the range
\* of the 309 entries of POW10 or the value is 0, and then returns the
\* value; the index at which the table is read is always below 309.
C25_FromParts ==
    pc = "converted" =>
        LET sig == conv.significand
            e == conv.exponent
            r == conv.r[1]
        IN  /\ r.rounds \in 0..2
            /\ r.index = NoIndex \/ r.index \in 0..(POW10_LEN - 1)
            /\ e > 308 =>
                /\ r.ok <=> sig = Zero
                /\ r.ok => r.f = F64(~conv.nonnegative, Zero, 0)
                /\ r.rounds = 0
            /\ e < 0 - 308 =>
                /\ r.ok
                /\ RoundsEnd(sig, e, r.rounds)
                /\ \A k \in 0..(r.rounds - 1) : ~RoundsEnd(sig, e, k)
                /\ r.f = IF IsZeroF(sig, e)
                         THEN F64(~conv.nonnegative, Zero, 0)
                         ELSE F64(~conv.nonnegative, sig, e)
            /\ 0 - 308 <= e /\ e <= 308 =>
                /\ r.rounds = 0
                /\ r.index = IF e < 0 THEN 0 - e ELSE e

\* u64::MAX with the exponent i32::MIN: two divisions, then 0.
C25_Witness ==
    /\ pc = "converted"
    /\ conv.significand = U64_MAX
    /\ conv.exponent = I32_MIN
    /\ conv.r[1].ok
    /\ conv.r[1].rounds = 2
    /\ conv.r[1].index = NoIndex
    /\ conv.r[1].f.sig = Zero

\* 9e-617: one division brings the exponent to -309, the next to -1, where
\* the table is read.
C25_WitnessTable ==
    /\ pc = "converted"
    /\ conv.significand = <<9>>
    /\ conv.exponent = 0 - 617
    /\ conv.r[1].rounds = 2

\* ------------------------------------------------------------------- C26

\* The number of fractional digits that fit: the longest run of them that,
\* written after the integer digits, is still a number up to u64::MAX.
FractionKept(n) ==
    CHOOSE k \in 0..Len(n.frac) :
        /\ NumLeq(StripZeros(n.int \o SubSeq(n.frac, 1, k)), U64_MAX)
        /\ k < Len(n.frac) =>
            NumLess(U64_MAX, StripZeros(n.int \o SubSeq(n.frac, 1, k + 1)))

\* C26: in parse_decimal the significand never passes u64::MAX.  Each
\* fractional digit that is accumulated multiplies the significand by 10,
\* adds the digit and lowers the exponent by 1; from the first fractional
\* digit that would overflow u64 on, the digits are consumed and change
\* neither the significand nor the exponent, and the number is no error.
C26_FractionTruncated ==
    AtNumber =>
        LET n == NumberShape(input, G_ws(input, 0)) IN
        ~n.bad /\ n.frac # <<>> /\ ~n.exp /\ NumLeq(n.int, U64_MAX) =>
            LET k == FractionKept(n)
                sig == StripZeros(n.int \o SubSeq(n.frac, 1, k))
            IN  /\ lexed.ok
                /\ lexed.pos = n.end
                /\ NumLeq(lexed.ev.f.sig, U64_MAX)
                /\ lexed.ev = [e |-> "Float",
                               f |-> IF sig = Zero THEN F64(n.neg, Zero, 0)
                                     ELSE F64(n.neg, sig, 0 - k)]

\* "1844674407370955161.601": the 6 would overflow, so neither it nor the
\* 0 and the 1 after it are taken.
C26_Witness ==
    /\ pc = "lexed"
    /\ input = itoa_u64(Div10(U64_MAX)) \o <<DOT, DIGIT0 + 6, DIGIT0, DIGIT1>>
    /\ lexed.ok
    /\ lexed.pos = Len(input)
    /\ lexed.ev.f = F64(FALSE, Div10(U64_MAX), 0)

\* ------------------------------------------------------------------- C27

\* The byte that a one-letter escape stands for, 256 where it is none.
EscapeOf(c) ==
    IF c = 34 \/ c = 92 \/ c = 47 THEN c
    ELSE IF c = 98 THEN 8
    ELSE IF c = 102 THEN 12
    ELSE IF c = 110 THEN 10
    ELSE IF c = 114 THEN 13
    ELSE IF c = 116 THEN 9
    ELSE 256

\* The string literal whose opening quote is before p, read as the claim
\* reads it: "ok" with the bytes it stands for and the place after the
\* closing quote, "err" where the claim says that it fails, "other" at a
\* \u escape that has its four bytes.
RECURSIVE ReadLiteral(_, _, _)
ReadLiteral(s, p, acc) ==
    IF p >= Len(s) THEN [is |-> "err"]
    ELSE IF s[p + 1] = 34 THEN [is |-> "ok", text |-> acc, end |-> p + 1]
    ELSE IF s[p + 1] # 92 THEN ReadLiteral(s, p + 1, Append(acc, s[p + 1]))
    ELSE IF p + 1 >= Len(s) THEN [is |-> "err"]
    ELSE IF s[p + 2] = 117
        THEN IF p + 6 > Len(s) THEN [is |-> "err"] ELSE [is |-> "other"]
    ELSE IF EscapeOf(s[p + 2]) = 256 THEN [is |-> "err"]
    ELSE ReadLiteral(s, p + 2, Append(acc, EscapeOf(s[p + 2])))

\* The event is the one of a call that found a string at the first byte.
AtString == pc = "lexed" /\ lexed.from = 0 /\ At(input, 0) = QUOTE

\* C27: in a string, \" \\ and \/ stand for themselves and \b \f \n \r \t
\* for the bytes 0x08 0x0C 0x0A 0x0D 0x09; a backslash followed by any other
\* byte except u, the end of the input after a backslash or within the four
\* hexadecimal digits of \u, and a string without its closing quote all
\* fail.
C27_Escapes ==
    AtString =>
        LET r == ReadLiteral(input, 1, <<>>) IN
        /\ r.is = "err" => ~lexed.ok
        /\ r.is = "ok" =>
            /\ lexed.ok
            /\ lexed.pos = r.end
            /\ lexed.ev = [e |-> "Str", s |-> r.text]

\* "a\tx" is the three bytes a, 0x09, x.
C27_Witness ==
    /\ pc = "lexed"
    /\ input = <<QUOTE, LOWER_A, BACKSLASH, LOWER_T, LOWER_X, QUOTE>>
    /\ lexed.ok
    /\ lexed.ev = [e |-> "Str", s |-> <<LOWER_A, 9, LOWER_X>>]

\* "\u00 ends within the four digits and fails.
C27_WitnessHex ==
    /\ pc = "lexed"
    /\ input = <<QUOTE, BACKSLASH, LOWER_U, DIGIT0, DIGIT0>>
    /\ ~lexed.ok

\* ------------------------------------------------------------------- C28

\* C28: the scratch buffer is reused from one string to the next, and each
\* string that the lexer returns is made of the raw chunks and the decoded
\* escapes of its own literal only, with no byte left from an earlier
\* string; the string is borrowed from the input (the buffer stays empty)
\* exactly when the literal has no backslash in it.
C28_BufferReuse ==
    pc = "lexed" /\ At(input, G_ws(input, lexed.from)) = QUOTE =>
        LET open == G_ws(input, lexed.from)
            r == ReadLiteral(input, open + 1, <<>>)
        IN  r.is = "ok" =>
            LET raw == SubSeq(input, open + 2, r.end - 1)
                escaped == \E i \in 1..Len(raw) : raw[i] = 92
            IN  /\ lexed.ok
                /\ lexed.pos = r.end
                /\ lexed.ev = [e |-> "Str", s |-> r.text]
                /\ lexed.buf = <<>> <=> ~escaped
                /\ escaped => lexed.buf = r.text
                /\ ~escaped => lexed.ev.s = raw

\* In "\n" "a" the second string is borrowed, after a first one that went
\* through the buffer.
C28_Witness ==
    /\ pc = "lexed"
    /\ input = Str(<<BACKSLASH, LOWER_N>>) \o <<SPACE>> \o Str(<<LOWER_A>>)
                    \o <<SPACE>>
    /\ lexed.from = 4
    /\ lexed.ok
    /\ lexed.ev = [e |-> "Str", s |-> <<LOWER_A>>]
    /\ lexed.buf = <<>>

\* In "a\tx" "\\" the second string goes through the buffer that the
\* first one has filled.
C28_WitnessSlow ==
    /\ pc = "lexed"
    /\ input = Str(<<LOWER_A, BACKSLASH, LOWER_T, LOWER_X>>) \o <<SPACE>>
                    \o Str(<<BACKSLASH, BACKSLASH>>) \o <<SPACE>>
    /\ lexed.from = 6
    /\ lexed.ok
    /\ lexed.ev = [e |-> "Str", s |-> <<BACKSLASH>>]
    /\ lexed.buf = <<BACKSLASH>>

\* ------------------------------------------------------------------- C29

\* The compact rendering of a value: a scalar as the writer spells it, an
\* array as '[' its elements with ',' between them ']', an object as '{'
\* its members, each the escaped key, ':' and the value, with ',' between
\* them '}'; no whitespace anywhere.
RECURSIVE Compact(_)
RECURSIVE CompactElements(_)
RECURSIVE CompactMembers(_)
Compact(v) ==
    IF v.t = "Array" THEN <<LBRACKET>> \o CompactElements(v.a) \o <<RBRACKET>>
    ELSE IF v.t = "Object" THEN <<LBRACE>> \o CompactMembers(v.o) \o <<RBRACE>>
    ELSE ScalarText(begin(v))
CompactElements(a) ==
    IF a = <<>> THEN <<>>
    ELSE IF Len(a) = 1 THEN Compact(a[1])
    ELSE Compact(a[1]) \o <<COMMA>> \o CompactElements(Tail(a))
CompactMembers(o) ==
    IF o = <<>> THEN <<>>
    ELSE IF Len(o) = 1 THEN escape_str(o[1].k) \o <<COLON>> \o Compact(o[1].v)
    ELSE escape_str(o[1].k) \o <<COLON>> \o Compact(o[1].v) \o <<COMMA>>
            \o CompactMembers(Tail(o))

\* C29: what the text writer has written when it returns is the compact
\* rendering of the tree, every bracket closed by its own kind in the
\* reverse order of the opening, and the stack of layers is empty.
C29_CompactText ==
    pc = "written" =>
        /\ text = Compact(result.value)
        /\ ser_stack = <<>>

\* [{"a":null},[[null,true],[]]] has been written.
C29_Witness ==
    /\ pc = "written"
    /\ result.value =
        VArray(<<VObject(<<[k |-> <<LOWER_A>>, v |-> VNull]>>),
                 VArray(<<VArray(<<VNull, VBool(TRUE)>>), VArray(<<>>)>>)>>)
    /\ text = <<LBRACKET, LBRACE, QUOTE, LOWER_A, QUOTE, COLON>> \o NULL_TEXT
                \o <<RBRACE, COMMA, LBRACKET, LBRACKET>> \o NULL_TEXT
                \o <<COMMA>> \o TRUE_TEXT
                \o <<RBRACKET, COMMA, LBRACKET, RBRACKET, RBRACKET, RBRACKET>>

\* ------------------------------------------------------------------- C30

\* C30: to_value walks the value as the text writer does and builds the
\* tree bottom-up: every value that is completed while a layer is open is
\* put into that layer, at its end, exactly once (as the next element of
\* its array or as the member under the pending key of its object), a layer
\* that is exhausted becomes the Array or Object completed next, and what
\* to_value(&v) returns has the structure of v.
C30_ToValue ==
    [][/\ pc' = "valued" =>
            /\ current_val' = target
            /\ ret'.v = target
            /\ value_stack' = <<>>
       /\ pc = "value_attach" /\ value_stack # <<>> =>
            LET top == Last(value_stack)
                grown == IF top.kind = "Seq" THEN top.acc \o <<current_val>>
                         ELSE top.acc \o <<[k |-> top.key[1], v |-> current_val]>>
            IN  IF Len(value_stack') = Len(value_stack)
                THEN /\ Last(value_stack').acc = grown
                     /\ Front(value_stack') = Front(value_stack)
                ELSE /\ value_stack' = Front(value_stack)
                     /\ current_val' = IF top.kind = "Seq" THEN VArray(grown)
                                       ELSE VObject(grown)]_vars

\* to_value has returned [{"a":null},[[null,true],[]]] for itself.
C30_Witness ==
    /\ pc = "valued"
    /\ target =
        VArray(<<VObject(<<[k |-> <<LOWER_A>>, v |-> VNull]>>),
                 VArray(<<VArray(<<VNull, VBool(TRUE)>>), VArray(<<>>)>>)>>)
    /\ ret = [fn |-> "to_value", of |-> target, v |-> target]
    /\ current_val = target
    /\ value_stack = <<>>

\* ------------------------------------------------------------------- C31

\* The kinds of the brackets that the first n bytes of s open and do not
\* close, outermost first; the bytes of a string literal are passed over.
RECURSIVE OpenKinds(_, _, _, _, _)
OpenKinds(s, i, n, instr, open) ==
    IF i >= n THEN open
    ELSE LET b == s[i + 1] IN
        IF instr THEN
            IF b = 92 THEN OpenKinds(s, i + 2, n, TRUE, open)
            ELSE OpenKinds(s, i + 1, n, b # 34, open)
        ELSE IF b = 34 THEN OpenKinds(s, i + 1, n, TRUE, open)
        ELSE IF b = 91 THEN OpenKinds(s, i + 1, n, FALSE, Append(open, "Seq"))
        ELSE IF b = 123 THEN OpenKinds(s, i + 1, n, FALSE, Append(open, "Map"))
        ELSE IF (b = 93 \/ b = 125) /\ open # <<>>
            THEN OpenKinds(s, i + 1, n, FALSE, Front(open))
        ELSE OpenKinds(s, i + 1, n, FALSE, open)

\* The last Visitor that handle h has returned from element() or key().
LastReturned(h) ==
    LET calls == {i \in 1..Len(trace) :
                    trace[i].op \in {"element", "key"} /\ trace[i].h = h
                    /\ trace[i].ok}
    IN  IF calls = {} THEN RootVisitor
        ELSE LET last == CHOOSE i \in calls : \A j \in calls : j <= i
             IN  Vis(trace[last].vh, trace[last].vn)

\* C31: at the start of every iteration of the outer loop of the driver the
\* explicit stack has one frame for each container that the input read so
\* far has opened and not closed, of the same kinds from bottom to top; the
\* current Visitor is the root Visitor when the stack is empty and otherwise
\* the one that element() or key() of the handle in the top frame returned
\* last; and no layer is held outside the stack.
C31_FramesAtLoopStart ==
    pc = "event" =>
        LET open == OpenKinds(input, 0, pos, FALSE, <<>>) IN
        /\ Len(stack) = Len(open)
        /\ \A i \in 1..Len(stack) : stack[i].layer.kind = open[i]
        /\ layer = NoLayer
        /\ stack = <<>> => visitor = RootVisitor
        /\ stack # <<>> =>
            /\ visitor # RootVisitor
            /\ visitor = LastReturned(Last(stack).layer.h)
            /\ visitor.h = Last(stack).layer.h

\* The loop starts again inside an object inside an array, after another
\* container was closed: two frames, a Seq below a Map.
C31_Witness ==
    /\ pc = "event"
    /\ Len(stack) = 2
    /\ stack[1].layer.kind = "Seq"
    /\ stack[2].layer.kind = "Map"
    /\ visitor = Vis(stack[2].layer.h, handles[stack[2].layer.h].calls)
    /\ \E i \in 1..Len(trace) : trace[i].op = "finish"

\* ------------------------------------------------------------------- C32

\* What is left for the driver to do: the bytes not yet read, and within
\* one position the delimiter loop before the element phase before the
\* event.
Measure ==
    3 * (Len(input) - pos)
        + (IF pc = "delim" THEN 2 ELSE IF pc = "element" THEN 1 ELSE 0)

\* C32: the driver terminates on every input.  The read position never
\* goes back and never passes the end of the input; the event at the top of
\* the outer loop reads at least one byte or the driver returns; a pass of
\* the delimiter loop that stays in the loop reads at least one byte; every
\* step that does not return lowers the measure of what is left; and the
\* driver does return.
C32_Terminates ==
    /\ [][Parsing =>
            /\ pos <= pos'
            /\ pos' <= Len(input)
            /\ pc = "event" => (pos < pos' \/ pc' = "done")
            /\ pc = "delim" /\ pc' = "delim" => pos < pos'
            /\ Parsing' => Measure' < Measure]_vars
    /\ <>(~Parsing)

\* A parse that went four times through the outer loop and twice more
\* through the delimiter loop has returned.
C32_Witness ==
    /\ pc = "done"
    /\ pos = Len(input)
    /\ Cardinality({i \in 1..Len(trace) : trace[i].op \in ValueOps}) >= 4
    /\ Cardinality({i \in 1..Len(trace) : trace[i].op = "finish"}) >= 2

\* ------------------------------------------------------------------- C33

\* The bytes in front of the first NUL byte of s.
BeforeNul(s) ==
    LET k == CHOOSE k \in 0..Len(s) :
                /\ k = Len(s) \/ s[k + 1] = NUL
                /\ \A j \in 1..k : s[j] # NUL
    IN  [j \in 1..k |-> s[j]]

\* C33: the read position never passes the end of the input: every event
\* starts at a position within the input and leaves one within it, also on
\* numbers, identifiers, strings and escapes that are cut short.  A NUL
\* byte behind a number or an identifier is read as the end of the input
\* is: the event is the one of the text that stops in front of the NUL.
C33_InBounds ==
    /\ 0 <= pos
    /\ pos <= Len(input)
    /\ pc = "lexed" =>
        /\ lexed.from <= lexed.pos
        /\ lexed.pos <= Len(input)
        /\ lexed.pos = pos
        /\ Len(lexed.buf) <= Len(input)
        /\ lexed.from = 0 /\ input \in NulTexts =>
            \E r \in {event(BeforeNul(input), validate_utf8, cpu, 0, <<>>)} :
                /\ r.ok = lexed.ok
                /\ r.ev = lexed.ev
                /\ r.pos <= lexed.pos

C33_Witness ==
    /\ pc = "lexed"
    /\ ~lexed.ok
    /\ Len(input) = 3
    /\ lexed.pos = Len(input)
    /\ At(input, 0) = DIGIT1
    /\ At(input, 1) = LOWER_E
    /\ At(input, 2) = NUL

\* ------------------------------------------------------------------- C34

\* The scalar value that the bytes at the head of s stand for, by the bit
\* layout of UTF-8, and the number of bytes it takes.
HeadLen(s) ==
    IF s[1] < 192 THEN 1 ELSE IF s[1] < 224 THEN 2 ELSE IF s[1] < 240 THEN 3
    ELSE 4

HeadScalar(s) ==
    LET b(i) == IF i <= Len(s) THEN s[i] % 64 ELSE 0 IN
    IF s[1] < 192 THEN s[1]
    ELSE IF s[1] < 224 THEN (s[1] % 32) * 64 + b(2)
    ELSE IF s[1] < 240 THEN (s[1] % 16) * 4096 + b(2) * 64 + b(3)
    ELSE (s[1] % 8) * 262144 + b(2) * 4096 + b(3) * 64 + b(4)

\* s is a sequence of encoded scalar values: what a &str holds.
RECURSIVE IsStr(_)
IsStr(s) ==
    \/ s = <<>>
    \/ /\ s[1] < 128
       /\ IsStr(SubSeq(s, AsciiRun(s) + 1, Len(s)))
    \/ /\ s[1] >= 128
       /\ HeadLen(s) <= Len(s)
       /\ IsScalar(HeadScalar(s))
       /\ SubSeq(s, 1, HeadLen(s)) = encode_utf8(HeadScalar(s))
       /\ IsStr(SubSeq(s, HeadLen(s) + 1, Len(s)))

\* C34: wherever the driver asks for an event or a key, the event with
\* validation (from_slice) and the one without (from_str) are the same,
\* position and scratch buffer included, unless the event is a string
\* literal and the input is not valid UTF-8, and then it is the validating
\* one that fails.  The driver uses validate_utf8 nowhere else, so on valid
\* UTF-8 both entry points make the same callbacks and return the same.
C34_SameOutcome ==
    pc \in {"event", "element"} =>
        \E a \in {event(input, TRUE, cpu, pos, buffer)} :
        \E b \in {event(input, FALSE, cpu, pos, buffer)} :
            a # b =>
                /\ At(input, skip_whitespace_and_peek_class(input, pos).pos)
                       = QUOTE
                /\ ~a.ok
                /\ ~IsStr(input)

C34_Witness ==
    /\ validate_utf8
    /\ result.tag = "Ok"
    /\ \E i \in 1..Len(trace) :
        /\ trace[i].op = "string"
        /\ trace[i].ok
        /\ trace[i].arg = <<195, 169, LF>>

\* ------------------------------------------------------------------- C35

LowerHexDigits == (DIGIT0..DIGIT9) \cup (LOWER_A..LOWER_F)

\* The text the writer makes of the single byte b of a string.
Escaped(b) ==
    IF b = 8 THEN <<BACKSLASH, LOWER_B>>
    ELSE IF b = 9 THEN <<BACKSLASH, LOWER_T>>
    ELSE IF b = 10 THEN <<BACKSLASH, LOWER_N>>
    ELSE IF b = 12 THEN <<BACKSLASH, LOWER_F>>
    ELSE IF b = 13 THEN <<BACKSLASH, LOWER_R>>
    ELSE IF b = QUOTE THEN <<BACKSLASH, QUOTE>>
    ELSE IF b = BACKSLASH THEN <<BACKSLASH, BACKSLASH>>
    ELSE IF b < 32
        THEN <<BACKSLASH, LOWER_U, DIGIT0, DIGIT0,
               CHOOSE h \in LowerHexDigits : HexVal(h) = b \div 16,
               CHOOSE l \in LowerHexDigits : HexVal(l) = b % 16>>
    ELSE <<b>>

\* C35: the text written for a string reads back as that string, with and
\* without validation, and is read to its end; a string of one byte is
\* written as that byte or as its escape (\", \\, \b, \t, \n, \f, \r, or
\* \u00 and two lower-case hexadecimal digits) between quotes.
C35_StringRoundTrip ==
    pc = "written" /\ result.value.t = "String" =>
        /\ \A v \in BOOLEAN :
            \E r \in {event(text, v, cpu, 0, <<>>)} :
                /\ r.ok
                /\ r.pos = Len(text)
                /\ r.ev = [e |-> "Str", s |-> result.value.s]
        /\ Len(result.value.s) = 1 => text = Str(Escaped(result.value.s[1]))

C35_Witness ==
    /\ pc = "written"
    /\ result = ResOk(VString(<<31>>))
    /\ text = <<QUOTE, BACKSLASH, LOWER_U, DIGIT0, DIGIT0, DIGIT1, LOWER_F,
                QUOTE>>

\* ------------------------------------------------------------------- C36

\* The object texts with the key "a" twice: {"a":1,"a":x}.
Repeated(x) ==
    <<LBRACE>> \o KeyA \o <<DIGIT1, COMMA>> \o KeyA \o x \o <<RBRACE>>

\* The last of the values that the pairs o give for the key k.
LastOf(o, k) ==
    o[CHOOSE i \in 1..Len(o) :
          /\ o[i].k = k
          /\ \A j \in (i + 1)..Len(o) : o[j].k # k].v

\* The pairs o as they stand, one after the other.
RECURSIVE Members(_)
Members(o) ==
    IF o = <<>> THEN <<>>
    ELSE escape_str(o[1].k) \o <<COLON>> \o Compact(o[1].v)
            \o (IF Len(o) = 1 THEN <<>> ELSE <<COMMA>>) \o Members(Tail(o))

\* C36: an object text with the same key twice parses without an error
\* into an object with one entry for the key, holding the value of the
\* last occurrence; to_value makes of pairs with a key more than once one
\* entry a key, in the order of the keys, with the last value of each;
\* the text writer writes every pair it is given, in the order given.
C36_LastKeyWins ==
    /\ pc = "done" /\ T = "Value" /\ target = NoValue =>
        /\ \A x \in Docs(MaxWraps - 1) :
              input = Repeated(x) =>
                /\ result.tag = "Ok"
                /\ result.value.t = "Object"
                /\ Len(result.value.o) = 1
                /\ result.value.o[1].k = <<LOWER_A>>
                /\ x # <<DIGIT1>> =>
                       result.value.o[1].v # VNumber(NU64(<<1>>))
        /\ input = Repeated(NULL_TEXT) =>
              result = ResOk(VObject(<<[k |-> <<LOWER_A>>, v |-> VNull]>>))
        /\ input = Repeated(<<LBRACKET, DIGIT1, RBRACKET>>) =>
              result = ResOk(VObject(<<[k |-> <<LOWER_A>>,
                    v |-> VArray(<<VNumber(NU64(<<1>>))>>)]>>))
        /\ input = Repeated(Str(<<LOWER_A>>)) =>
              result = ResOk(VObject(<<[k |-> <<LOWER_A>>,
                                       v |-> VString(<<LOWER_A>>)]>>))
    /\ pc = "valued" /\ target.t = "Pairs" =>
        /\ ret.v.t = "Object"
        /\ \A i \in 1..Len(target.o) :
              \E j \in 1..Len(ret.v.o) :
                /\ ret.v.o[j].k = target.o[i].k
                /\ ret.v.o[j].v = LastOf(target.o, target.o[i].k)
        /\ \A j \in 1..Len(ret.v.o) :
              \E i \in 1..Len(target.o) : target.o[i].k = ret.v.o[j].k
        /\ \A j \in 1..(Len(ret.v.o) - 1) :
              StrLess(ret.v.o[j].k, ret.v.o[j + 1].k)
    /\ pc = "written" /\ result.value.t = "Pairs" =>
        text = <<LBRACE>> \o Members(result.value.o) \o <<RBRACE>>

C36_Witness ==
    /\ pc = "done"
    /\ input = Repeated(<<LBRACKET, DIGIT1, RBRACKET>>)
    /\ result.tag = "Ok"
    /\ Len(result.value.o) = 1

\* ------------------------------------------------------------------- C37

\* C37: in to_value every Map layer on the stack holds a pending key and
\* no Seq layer does, so the value attached to a Map layer always has its
\* key; the layer popped is the one the value was attached to and gives
\* the container of its kind; at the return the stack is empty.
C37_ToValueSafe ==
    /\ [](/\ \A i \in 1..Len(value_stack) :
              /\ value_stack[i].kind \in {"Seq", "Map"}
              /\ value_stack[i].kind = "Map" <=> value_stack[i].key # None
          /\ pc = "valued" => value_stack = <<>>)
    /\ [][/\ Len(value_stack') < Len(value_stack) =>
              /\ pc = "value_attach"
              /\ value_stack' = Front(value_stack)
              /\ Last(value_stack).rest = <<>>
              /\ current_val'.t = IF Last(value_stack).kind = "Seq"
                                  THEN "Array" ELSE "Object"
          /\ pc' = "valued" => value_stack = <<>> /\ ret'.v = current_val]_vars

C37_Witness ==
    /\ pc = "value_attach"
    /\ Len(value_stack) = 2
    /\ value_stack[1].kind = "Map"
    /\ value_stack[2].kind = "Map"
    /\ value_stack[1].key = Some(<<LOWER_B>>)
    /\ value_stack[2].key = Some(<<LOWER_A>>)
    /\ value_stack[2].rest = <<>>

\* ------------------------------------------------------------------- C38

\* The number of backslashes that stand right in front of index i of s.
BackRun(s, i) ==
    CHOOSE n \in 0..(i - 1) :
        /\ \A j \in 1..n : s[i - j] = BACKSLASH
        /\ n < i - 1 => s[i - n - 1] # BACKSLASH

\* The indices of the quotes behind the opening one that no backslash
\* escapes.
EndQuotes(s) ==
    {i \in 2..Len(s) : s[i] = QUOTE /\ BackRun(s, i) % 2 = 0}

Least(S) == CHOOSE i \in S : \A j \in S : i <= j

\* C38: a string that is read ends behind the first quote that is not part
\* of an escape; without such a quote there is an error.  When no backslash
\* stands in front of that quote the string is read whatever its bytes are,
\* control bytes included, and is those bytes as they stand; in any string
\* that is read the bytes in front of the first backslash are delivered as
\* they stand, and so are the bytes behind the last escape of one letter.
C38_OnlyQuoteAndBackslash ==
    AtString =>
        LET ends == EndQuotes(input)
            end == Least(ends)
            slashes == {i \in 2..Len(input) : input[i] = BACKSLASH}
        IN
        /\ ends = {} => ~lexed.ok
        /\ lexed.ok =>
            /\ ends # {}
            /\ lexed.pos = end
            /\ lexed.ev.e = "Str"
            /\ \A i \in 2..(end - 1) :
                  (\A j \in 2..i : input[j] # BACKSLASH) =>
                      lexed.ev.s[i - 1] = input[i]
            /\ \A i \in 2..(end - 1) :
                  /\ \A j \in (i - 1)..(end - 1) : input[j] # BACKSLASH
                  /\ \A j \in slashes : At(input, j) # LOWER_U
                  => lexed.ev.s[Len(lexed.ev.s) - (end - 1 - i)] = input[i]
        /\ ends # {} /\ (\A i \in slashes : i > end) =>
            /\ lexed.ok
            /\ lexed.ev = [e |-> "Str", s |-> SubSeq(input, 2, end - 1)]

C38_Witness ==
    /\ AtString
    /\ lexed.ok
    /\ input = <<QUOTE, LOWER_A, NUL, LOWER_X, QUOTE, QUOTE, LOWER_X, QUOTE>>
    /\ lexed.ev.s = <<LOWER_A, NUL, LOWER_X>>
    /\ lexed.pos = 5

=============================================================================
